---------------------------- MODULE Spec2Model ----------------------------
(***************************************************************************)
(* A model of python/mlx/optimizers.py: the Optimizer engine (init,        *)
(* apply_gradients, update, the state and learning_rate accessors), the    *)
(* nine update rules (init_single / apply_single) and the learning-rate    *)
(* schedulers (LRScheduler.step, the get_lr of every variant and           *)
(* SequentialLR).                                                          *)
(*                                                                         *)
(* Numbers.  An mx.array leaf is modelled as a one-element tensor: a       *)
(* record [val, ndim] whose val is a rational <<n, d>> (d > 0, in lowest   *)
(* terms) and whose ndim is the rank.  On a one-element tensor the         *)
(* elementwise operations are the scalar ones and every mean is the        *)
(* element itself.  The IEEE specials are <<1,0>> (inf), <<-1,0>> (-inf)   *)
(* and <<0,0>> (nan).  Arithmetic is exact as long as numerator and        *)
(* denominator stay within MaxMantissa; beyond it a result is rounded to   *)
(* a convergent of its continued fraction, within a relative error of      *)
(* 1 / MaxMantissa, as a float of that precision would be.  Square roots   *)
(* of non-squares are rounded down.                                        *)
(*                                                                         *)
(* Let1 binds the value of an expression to a name: the expression is      *)
(* evaluated once, where a LET definition is evaluated at every use.       *)
(***************************************************************************)
EXTENDS Integers, Sequences, FiniteSets, TLC

Let1(e, F(_)) == CHOOSE r \in {F(x) : x \in {e}} : TRUE

Let2(e1, e2, F(_, _)) == CHOOSE r \in {F(x, y) : x \in {e1}, y \in {e2}} : TRUE

(***************************************************************************)
(* Rational arithmetic with IEEE specials                                  *)
(***************************************************************************)
Abs(x) == IF x < 0 THEN -x ELSE x

Sgn(x) == IF x < 0 THEN -1 ELSE IF x > 0 THEN 1 ELSE 0

MaxOf(a, b) == IF a >= b THEN a ELSE b

RECURSIVE Gcd(_, _)
Gcd(a, b) == IF b = 0 THEN a ELSE Gcd(b, a % b)

\* The model's floats keep numerator and denominator within MaxMantissa, so
\* that no product leaves the 32-bit integers of the checker.
MaxMantissa == 30000

\* The last convergent h / k of the continued fraction of n / d (n >= 0,
\* d > 0) with h and k within MaxMantissa; h1 / k1 and h0 / k0 are the two
\* convergents before.  It is within 1 / MaxMantissa of n / d, relatively.
RECURSIVE Convergent(_, _, _, _, _, _)
Convergent(n, d, h1, k1, h0, k0) ==
    Let2((n \div d) * h1 + h0, (n \div d) * k1 + k0,
    LAMBDA h, k :
        IF h > MaxMantissa \/ k > MaxMantissa THEN <<h1, k1>>
        ELSE IF n % d = 0 THEN <<h, k>>
        ELSE Convergent(d, n % d, h, k, h1, k1))

\* n / d (d > 0, lowest terms) rounded to the model's precision; a magnitude
\* beyond it overflows to an infinity, one below it underflows to zero
Round(n, d) ==
    IF Abs(n) <= MaxMantissa /\ d <= MaxMantissa THEN <<n, d>>
    ELSE Let1(Convergent(Abs(n), d, 1, 0, 0, 1), LAMBDA c : <<Sgn(n) * c[1], c[2]>>)

\* <<n, d>> in lowest terms with a positive denominator; d = 0 is a special
Norm(n, d) ==
    IF d = 0 THEN <<Sgn(n), 0>>
    ELSE Let1(Gcd(Abs(n), Abs(d)),
              LAMBDA g : Round(Sgn(d) * (n \div g), Abs(d) \div g))

Q(n, d) == Norm(n, d)

Zero == <<0, 1>>

One == <<1, 1>>

NaN == <<0, 0>>

IsNaN(a) == a = NaN

Neg(a) == Let1(a, LAMBDA x : <<-x[1], x[2]>>)

Add(a, b) ==
    Let2(a, b, LAMBDA x, y :
        IF x[2] = 0 /\ y[2] = 0
        THEN (IF x = y THEN x ELSE NaN)
        ELSE Norm(x[1] * y[2] + y[1] * x[2], x[2] * y[2]))

Sub(a, b) == Add(a, Neg(b))

Mul(a, b) == Let2(a, b, LAMBDA x, y : Norm(x[1] * y[1], x[2] * y[2]))

Recip(a) == Let1(a, LAMBDA x : IF x[1] < 0 THEN <<-x[2], -x[1]>> ELSE <<x[2], x[1]>>)

Div(a, b) == Mul(a, Recip(b))

\* a < b on floats: false when either side is nan
Lt(a, b) ==
    Let2(a, b, LAMBDA x, y :
        /\ x # NaN
        /\ y # NaN
        /\ IF x[2] = 0 /\ y[2] = 0 THEN x[1] < y[1] ELSE x[1] * y[2] < y[1] * x[2])

Le(a, b) == Let2(a, b, LAMBDA x, y : x # NaN /\ y # NaN /\ (x = y \/ Lt(x, y)))

\* mx.maximum / mx.minimum / mx.abs / mx.sign / mx.square: nan propagates
Maximum(a, b) ==
    Let2(a, b, LAMBDA x, y : IF x = NaN \/ y = NaN THEN NaN ELSE IF Lt(x, y) THEN y ELSE x)

Minimum(a, b) ==
    Let2(a, b, LAMBDA x, y : IF x = NaN \/ y = NaN THEN NaN ELSE IF Lt(y, x) THEN y ELSE x)

AbsQ(a) == Let1(a, LAMBDA x : <<Abs(x[1]), x[2]>>)

Sign(a) == Let1(a, LAMBDA x : IF x = NaN THEN NaN ELSE <<Sgn(x[1]), 1>>)

Square(a) == Let1(a, LAMBDA x : Mul(x, x))

\* floor of the integer square root, by Newton's iteration downward from a
\* start r at or above the root
RECURSIVE ISqrtFrom(_, _)
ISqrtFrom(x, r) ==
    IF r <= x \div r THEN r
    ELSE Let1((r + x \div r) \div 2, LAMBDA n : ISqrtFrom(x, n))

ISqrt(x) ==
    IF x <= 0 THEN 0
    ELSE ISqrtFrom(x, IF x < 100 THEN 10
                      ELSE IF x < 10000 THEN 100
                      ELSE IF x < 1000000 THEN 1000
                      ELSE IF x < 100000000 THEN 10000
                      ELSE 46340)

\* mx.sqrt / math.sqrt: nan below zero, exact on squares, else the root of
\* n * d * s * s over d * s for the largest scale s the integers allow
Sqrt(a) ==
    Let1(a, LAMBDA x :
        IF x = NaN \/ x[1] < 0 THEN NaN
        ELSE IF x[2] = 0 \/ x[1] = 0 THEN x
        ELSE Let2(ISqrt(x[1]), ISqrt(x[2]), LAMBDA rn, rd :
                 IF rn * rn = x[1] /\ rd * rd = x[2] THEN Norm(rn, rd)
                 ELSE Let1(ISqrt(2000000000 \div (x[1] * x[2])), LAMBDA s :
                          Norm(ISqrt(x[1] * x[2] * s * s), x[2] * s))))

\* mx.rsqrt
Rsqrt(a) == Recip(Sqrt(a))

RECURSIVE PowNat(_, _)
PowNat(a, k) == IF k = 0 THEN One ELSE Mul(a, PowNat(a, k - 1))

\* a ** k and math.pow(a, k) for an integer exponent k
Pow(a, k) == Let1(a, LAMBDA x : IF k >= 0 THEN PowNat(x, k) ELSE Recip(PowNat(x, -k)))

(***************************************************************************)
(* Leaves, state nodes and the outcome of a leaf-level call                *)
(***************************************************************************)
\* a one-element mx.array of rank ndim
Leaf(val, ndim) == [val |-> val, ndim |-> ndim]

NoLeaf == [val |-> NaN, ndim |-> 0]

\* the value of self.state["learning_rate"] when the key is absent
NoLR == <<>>

\* beta_1 = None
None == <<>>

\* mx.zeros_like(parameter): the entry of a state node keeps the value only
zeros_like(parameter) == Zero

EmptyNode == <<>>

Has(state, k) == k \in DOMAIN state

\* state[k] = v
Put(state, k, v) == (k :> v) @@ state

\* what a call of apply_single leaves behind: the value returned (or the
\* error raised), the state node, and the gradient and parameter arrays the
\* caller passed, as the caller sees them after the call
Return(out, state, gradient, parameter) ==
    [err |-> "", out |-> out, state |-> state, gradient |-> gradient, parameter |-> parameter]

Raise(err, state, gradient, parameter) ==
    [err |-> err, out |-> NoLeaf, state |-> state, gradient |-> gradient, parameter |-> parameter]

\* the rank of an elementwise result of two one-element tensors
OutDim(gradient, parameter) == MaxOf(gradient.ndim, parameter.ndim)

(***************************************************************************)
(* Hyperparameters: one record shape for all rules; a rule reads its own   *)
(* fields.  lr is the constructor's learning_rate (NoLR: not given); eps   *)
(* and eps2 are Adafactor's eps[0] and eps[1]; decay_rate is an integer.   *)
(***************************************************************************)
HP0 ==
    [kind |-> "SGD", lr |-> One,
     momentum |-> Zero, weight_decay |-> Zero, dampening |-> Zero, nesterov |-> FALSE,
     alpha |-> Zero, eps |-> Zero, rho |-> Zero, b1 |-> Zero, b2 |-> Zero,
     eps2 |-> Zero, clip_threshold |-> One, decay_rate |-> 0, beta_1 |-> None,
     scale_parameter |-> FALSE, relative_step |-> FALSE, warmup_init |-> FALSE]

(***************************************************************************)
(* SGD                                                                     *)
(***************************************************************************)
SGD_init_single(hp, parameter, state) == Put(state, "v", zeros_like(parameter))

\* a variant of SGD.apply_single that keeps the momentum under another key
SGD_apply_single_rekeyed(hp, lr, gradient, parameter, state) ==
    Let1(IF Has(state, "v") THEN Add(Mul(hp.momentum, state["v"]), gradient.val)
         ELSE gradient.val,
    LAMBDA v :
        Return(Leaf(Sub(parameter.val, Mul(lr, v)), OutDim(gradient, parameter)),
               Put(state, "momentum_buffer", v), gradient, parameter))

\* a variant of SGD.apply_single that steps along the momentum of the call
\* before
SGD_apply_single_lagged(hp, lr, gradient, parameter, state) ==
    IF ~Has(state, "v") \/ lr = NoLR THEN Raise("KeyError", state, gradient, parameter)
    ELSE Return(Leaf(Sub(parameter.val, Mul(lr, state["v"])), OutDim(gradient, parameter)),
                Put(state, "v", Add(Mul(hp.momentum, state["v"]), gradient.val)),
                gradient, parameter)

\* a variant of SGD.apply_single that steps with the learning rate given to
\* the constructor
SGD_apply_single_constructed_rate(hp, lr, gradient, parameter, state) ==
    \* gradient += weight_decay * parameter writes the caller's array
    Let1(IF hp.weight_decay # Zero
         THEN Add(gradient.val, Mul(hp.weight_decay, parameter.val))
         ELSE gradient.val,
    LAMBDA g :
    Let1([gradient EXCEPT !.val = g],
    LAMBDA gl :
        IF Le(hp.momentum, Zero)
        THEN IF hp.lr = NoLR THEN Raise("KeyError", state, gl, parameter)
             ELSE Return(Leaf(Sub(parameter.val, Mul(hp.lr, g)), OutDim(gradient, parameter)),
                         state, gl, parameter)
        ELSE IF ~Has(state, "v") THEN Raise("TypeError", state, gl, parameter)
        ELSE
        Let1(IF Lt(Zero, hp.dampening)
             THEN Add(Mul(hp.momentum, state["v"]), Mul(Sub(One, hp.dampening), g))
             ELSE Add(Mul(hp.momentum, state["v"]), g),
        LAMBDA v :
        Let1(IF hp.nesterov THEN Add(g, Mul(hp.momentum, v)) ELSE v,
        LAMBDA upd :
            IF hp.lr = NoLR THEN Raise("KeyError", Put(state, "v", v), gl, parameter)
            ELSE Return(Leaf(Sub(parameter.val, Mul(hp.lr, upd)), OutDim(gradient, parameter)),
                        Put(state, "v", v), gl, parameter)))))

SGD_apply_single(hp, lr, gradient, parameter, state) ==
    \* gradient += weight_decay * parameter writes the caller's array
    Let1(IF hp.weight_decay # Zero
         THEN Add(gradient.val, Mul(hp.weight_decay, parameter.val))
         ELSE gradient.val,
    LAMBDA g :
    Let1([gradient EXCEPT !.val = g],
    LAMBDA gl :
        IF Le(hp.momentum, Zero)
        THEN IF lr = NoLR THEN Raise("KeyError", state, gl, parameter)
             ELSE Return(Leaf(Sub(parameter.val, Mul(lr, g)), OutDim(gradient, parameter)),
                         state, gl, parameter)
        ELSE IF ~Has(state, "v") THEN Raise("TypeError", state, gl, parameter)
        ELSE
        Let1(IF Lt(Zero, hp.dampening)
             THEN Add(Mul(hp.momentum, state["v"]), Mul(Sub(One, hp.dampening), g))
             ELSE Add(Mul(hp.momentum, state["v"]), g),
        LAMBDA v :
        Let1(IF hp.nesterov THEN Add(g, Mul(hp.momentum, v)) ELSE v,
        LAMBDA upd :
            IF lr = NoLR THEN Raise("KeyError", Put(state, "v", v), gl, parameter)
            ELSE Return(Leaf(Sub(parameter.val, Mul(lr, upd)), OutDim(gradient, parameter)),
                        Put(state, "v", v), gl, parameter)))))

(***************************************************************************)
(* RMSprop                                                                 *)
(***************************************************************************)
RMSprop_init_single(hp, parameter, state) == Put(state, "v", zeros_like(parameter))

RMSprop_apply_single(hp, lr, gradient, parameter, state) ==
    IF lr = NoLR \/ ~Has(state, "v") THEN Raise("KeyError", state, gradient, parameter)
    ELSE
    Let1(Add(Mul(hp.alpha, state["v"]), Mul(Sub(One, hp.alpha), Square(gradient.val))),
    LAMBDA v :
        Return(Leaf(Sub(parameter.val, Div(Mul(lr, gradient.val), Add(Sqrt(v), hp.eps))),
                    OutDim(gradient, parameter)),
               Put(state, "v", v), gradient, parameter))

(***************************************************************************)
(* Adagrad                                                                 *)
(***************************************************************************)
Adagrad_init_single(hp, parameter, state) == Put(state, "v", zeros_like(parameter))

Adagrad_apply_single(hp, lr, gradient, parameter, state) ==
    IF lr = NoLR \/ ~Has(state, "v") THEN Raise("KeyError", state, gradient, parameter)
    ELSE
    Let1(Add(state["v"], Square(gradient.val)),
    LAMBDA v :
        Return(Leaf(Sub(parameter.val, Div(Mul(lr, gradient.val), Add(Sqrt(v), hp.eps))),
                    OutDim(gradient, parameter)),
               Put(state, "v", v), gradient, parameter))

(***************************************************************************)
(* AdaDelta                                                                *)
(***************************************************************************)
AdaDelta_init_single(hp, parameter, state) ==
    Put(Put(state, "v", zeros_like(parameter)), "u", zeros_like(parameter))

AdaDelta_apply_single(hp, lr, gradient, parameter, state) ==
    IF lr = NoLR \/ ~Has(state, "v") \/ ~Has(state, "u")
    THEN Raise("KeyError", state, gradient, parameter)
    ELSE
    Let1(Add(Mul(hp.rho, state["v"]), Mul(Sub(One, hp.rho), Square(gradient.val))),
    LAMBDA v :
    Let1(Mul(Div(Sqrt(Add(state["u"], hp.eps)), Sqrt(Add(v, hp.eps))), gradient.val),
    LAMBDA d :
    Let1(Add(Mul(hp.rho, state["u"]), Mul(Sub(One, hp.rho), Square(d))),
    LAMBDA u :
        Return(Leaf(Sub(parameter.val, Mul(lr, d)), OutDim(gradient, parameter)),
               Put(Put(state, "v", v), "u", u), gradient, parameter))))

(***************************************************************************)
(* Adam, AdamW, Adamax                                                     *)
(***************************************************************************)
Adam_init_single(hp, parameter, state) ==
    Put(Put(state, "m", zeros_like(parameter)), "v", zeros_like(parameter))

\* a variant of Adam.apply_single that steps along the gradient in place of m
Adam_apply_single_unaveraged(hp, lr, gradient, parameter, state) ==
    IF lr = NoLR \/ ~Has(state, "m") \/ ~Has(state, "v")
    THEN Raise("KeyError", state, gradient, parameter)
    ELSE
    Let2(Add(Mul(hp.b1, state["m"]), Mul(Sub(One, hp.b1), gradient.val)),
         Add(Mul(hp.b2, state["v"]), Mul(Sub(One, hp.b2), Square(gradient.val))),
    LAMBDA m, v :
        Return(Leaf(Sub(parameter.val, Div(Mul(lr, gradient.val), Add(Sqrt(v), hp.eps))),
                    OutDim(gradient, parameter)),
               Put(Put(state, "m", m), "v", v), gradient, parameter))

Adam_apply_single(hp, lr, gradient, parameter, state) ==
    IF lr = NoLR \/ ~Has(state, "m") \/ ~Has(state, "v")
    THEN Raise("KeyError", state, gradient, parameter)
    ELSE
    Let2(Add(Mul(hp.b1, state["m"]), Mul(Sub(One, hp.b1), gradient.val)),
         Add(Mul(hp.b2, state["v"]), Mul(Sub(One, hp.b2), Square(gradient.val))),
    LAMBDA m, v :
        Return(Leaf(Sub(parameter.val, Div(Mul(lr, m), Add(Sqrt(v), hp.eps))),
                    OutDim(gradient, parameter)),
               Put(Put(state, "m", m), "v", v), gradient, parameter))

\* Adam's update on parameter * (1 - lr * weight_decay); the array the caller
\* passed is not the one Adam is handed
AdamW_apply_single(hp, lr, gradient, parameter, state) ==
    IF lr = NoLR THEN Raise("KeyError", state, gradient, parameter)
    ELSE
    Let1([parameter EXCEPT !.val = Mul(parameter.val, Sub(One, Mul(lr, hp.weight_decay)))],
    LAMBDA decayed :
    Let1(Adam_apply_single(hp, lr, gradient, decayed, state),
    LAMBDA r : [r EXCEPT !.parameter = parameter]))

Adamax_init_single(hp, parameter, state) ==
    Put(Put(state, "m", zeros_like(parameter)), "v", zeros_like(parameter))

Adamax_apply_single(hp, lr, gradient, parameter, state) ==
    IF lr = NoLR \/ ~Has(state, "m") \/ ~Has(state, "v")
    THEN Raise("KeyError", state, gradient, parameter)
    ELSE
    Let2(Add(Mul(hp.b1, state["m"]), Mul(Sub(One, hp.b1), gradient.val)),
         Maximum(Mul(hp.b2, state["v"]), AbsQ(gradient.val)),
    LAMBDA m, v :
        Return(Leaf(Sub(parameter.val, Div(Mul(lr, m), Add(v, hp.eps))),
                    OutDim(gradient, parameter)),
               Put(Put(state, "m", m), "v", v), gradient, parameter))

(***************************************************************************)
(* Lion                                                                    *)
(***************************************************************************)
Lion_init_single(hp, parameter, state) == Put(state, "m", zeros_like(parameter))

Lion_apply_single(hp, lr, gradient, parameter, state) ==
    IF lr = NoLR \/ ~Has(state, "m") THEN Raise("KeyError", state, gradient, parameter)
    ELSE
    Let2(Add(Mul(hp.b1, state["m"]), Mul(Sub(One, hp.b1), gradient.val)),
         \* parameter = (1 - lr * weight_decay) * parameter rebinds the local name
         IF Lt(Zero, hp.weight_decay)
         THEN Mul(Sub(One, Mul(lr, hp.weight_decay)), parameter.val)
         ELSE parameter.val,
    LAMBDA c, p :
        Return(Leaf(Sub(p, Mul(lr, Sign(c))), OutDim(gradient, parameter)),
               Put(state, "m", Add(Mul(hp.b2, state["m"]), Mul(Sub(One, hp.b2), gradient.val))),
               gradient, parameter))

(***************************************************************************)
(* Adafactor                                                               *)
(***************************************************************************)
Adafactor_init_single(hp, parameter, state) ==
    Let1(IF parameter.ndim >= 2
         THEN Put(Put(Put(state, "step", 0), "exp_avg_sq_row", Zero), "exp_avg_sq_col", Zero)
         ELSE Put(Put(state, "step", 0), "exp_avg_sq", zeros_like(parameter)),
    LAMBDA s : IF hp.beta_1 # None THEN Put(s, "exp_avg", zeros_like(parameter)) ELSE s)

\* sqrt(mean(square(inputs)))
compute_rms(inputs) == Sqrt(Square(inputs))

\* a variant of _compute_learning_rate that takes the step size from the
\* stored learning rate in relative-step mode too
compute_learning_rate_stored(hp, lr, step, parameter_rms) ==
    IF lr = NoLR THEN [err |-> "KeyError", val |-> NaN]
    ELSE [err |-> "",
          val |-> Mul(IF hp.scale_parameter THEN Maximum(hp.eps2, parameter_rms) ELSE One, lr)]

\* The value parameter_scale * relative_step_size, or the error raised.  With
\* relative_step off the code evaluates
\* self.learning_rate.astype(parameter_rms): the key lookup raises KeyError
\* when no learning rate was given, and astype raises TypeError on the array
\* it is handed in place of a dtype.
compute_learning_rate(hp, lr, step, parameter_rms) ==
    IF ~hp.relative_step
    THEN [err |-> IF lr = NoLR THEN "KeyError" ELSE "TypeError", val |-> NaN]
    ELSE
    Let2(IF hp.warmup_init THEN Mul(Q(1, 1000000), Q(step, 1)) ELSE Q(1, 100),
         Recip(Sqrt(Q(step, 1))),
    LAMBDA min_step, inv :
        [err |-> "",
         val |-> Mul(IF hp.scale_parameter THEN Maximum(hp.eps2, parameter_rms) ELSE One,
                     IF Lt(inv, min_step) THEN inv ELSE min_step)])

\* on one-element factors: rsqrt(row / mean(row)) times rsqrt(col)
approximate_exp_moving_avg(exp_avg_sq_row, exp_avg_sq_col) ==
    Let1(exp_avg_sq_row, LAMBDA row : Mul(Rsqrt(Div(row, row)), Rsqrt(exp_avg_sq_col)))

\* the second-moment part: the state node with the accumulators written and
\* the update rsqrt(second moment) * gradient, or KeyError on a missing key
Adafactor_second_moment(factored, beta_2, g, update, s0) ==
    IF factored
    THEN IF ~(Has(s0, "exp_avg_sq_row") /\ Has(s0, "exp_avg_sq_col"))
         THEN [err |-> "KeyError", state |-> s0, update |-> NaN]
         ELSE Let2(Add(Mul(beta_2, s0["exp_avg_sq_row"]), Mul(Sub(One, beta_2), update)),
                   Add(Mul(beta_2, s0["exp_avg_sq_col"]), Mul(Sub(One, beta_2), update)),
              LAMBDA row, col :
                  [err |-> "",
                   state |-> Put(Put(s0, "exp_avg_sq_row", row), "exp_avg_sq_col", col),
                   update |-> Mul(approximate_exp_moving_avg(row, col), g)])
    ELSE IF ~Has(s0, "exp_avg_sq")
         THEN [err |-> "KeyError", state |-> s0, update |-> NaN]
         ELSE Let1(Add(Mul(beta_2, s0["exp_avg_sq"]), Mul(Sub(One, beta_2), update)),
              LAMBDA sq :
                  [err |-> "", state |-> Put(s0, "exp_avg_sq", sq),
                   update |-> Mul(Rsqrt(sq), g)])

Adafactor_apply_single(hp, lr, gradient, parameter, state) ==
    IF ~Has(state, "step") THEN Raise("KeyError", state, gradient, parameter)
    ELSE
    Let2(state["step"] + 1, Put(state, "step", state["step"] + 1),
    LAMBDA step, s0 :
    Let1(compute_learning_rate(hp, lr, step, compute_rms(parameter.val)),
    LAMBDA clr :
    IF clr.err # "" THEN Raise(clr.err, s0, gradient, parameter)
    ELSE
    Let1(Adafactor_second_moment(gradient.ndim >= 2,
                                 Sub(One, Pow(Q(step, 1), hp.decay_rate)),
                                 gradient.val, Add(Square(gradient.val), hp.eps), s0),
    LAMBDA sm :
    IF sm.err # "" THEN Raise(sm.err, sm.state, gradient, parameter)
    ELSE
    \* the clipped update times the learning rate
    Let1(Mul(clr.val,
             Div(sm.update, Maximum(One, Div(compute_rms(sm.update), hp.clip_threshold)))),
    LAMBDA update :
    IF hp.beta_1 # None /\ ~Has(sm.state, "exp_avg")
    THEN Raise("KeyError", sm.state, gradient, parameter)
    ELSE
    Let2(IF hp.beta_1 # None
         THEN Add(Mul(hp.beta_1, sm.state["exp_avg"]), Mul(Sub(One, hp.beta_1), update))
         ELSE update,
         \* parameter += ... writes the caller's array
         IF hp.weight_decay # Zero
         THEN Add(parameter.val, Mul(parameter.val, Mul(Neg(hp.weight_decay), clr.val)))
         ELSE parameter.val,
    LAMBDA upd, p :
        Return(Leaf(Sub(p, upd), OutDim(gradient, parameter)),
               IF hp.beta_1 # None THEN Put(sm.state, "exp_avg", upd) ELSE sm.state,
               gradient, [parameter EXCEPT !.val = p]))))))

(***************************************************************************)
(* Dispatch on the rule: the two hooks every subclass overrides            *)
(***************************************************************************)
Kinds ==
    {"SGD", "RMSprop", "Adagrad", "AdaDelta", "Adam", "AdamW", "Adamax", "Lion", "Adafactor"}

init_single(hp, parameter, state) ==
    CASE hp.kind = "SGD" -> SGD_init_single(hp, parameter, state)
      [] hp.kind = "RMSprop" -> RMSprop_init_single(hp, parameter, state)
      [] hp.kind = "Adagrad" -> Adagrad_init_single(hp, parameter, state)
      [] hp.kind = "AdaDelta" -> AdaDelta_init_single(hp, parameter, state)
      [] hp.kind = "Adam" -> Adam_init_single(hp, parameter, state)
      [] hp.kind = "AdamW" -> Adam_init_single(hp, parameter, state)
      [] hp.kind = "Adamax" -> Adamax_init_single(hp, parameter, state)
      [] hp.kind = "Lion" -> Lion_init_single(hp, parameter, state)
      [] hp.kind = "Adafactor" -> Adafactor_init_single(hp, parameter, state)

apply_single(hp, lr, gradient, parameter, state) ==
    CASE hp.kind = "SGD" -> SGD_apply_single(hp, lr, gradient, parameter, state)
      [] hp.kind = "RMSprop" -> RMSprop_apply_single(hp, lr, gradient, parameter, state)
      [] hp.kind = "Adagrad" -> Adagrad_apply_single(hp, lr, gradient, parameter, state)
      [] hp.kind = "AdaDelta" -> AdaDelta_apply_single(hp, lr, gradient, parameter, state)
      [] hp.kind = "Adam" -> Adam_apply_single(hp, lr, gradient, parameter, state)
      [] hp.kind = "AdamW" -> AdamW_apply_single(hp, lr, gradient, parameter, state)
      [] hp.kind = "Adamax" -> Adamax_apply_single(hp, lr, gradient, parameter, state)
      [] hp.kind = "Lion" -> Lion_apply_single(hp, lr, gradient, parameter, state)
      [] hp.kind = "Adafactor" -> Adafactor_apply_single(hp, lr, gradient, parameter, state)

(***************************************************************************)
(* Trees.  A tree of nested dicts is the function from the paths of its    *)
(* leaves to the leaves; the model's tree has the arrays w, n.x and n.y.   *)
(***************************************************************************)
Paths == {<<"w">>, <<"n", "x">>, <<"n", "y">>}

\* the order in which a dict of the shape of the model is walked
PathOrder == <<(<<"w">>), (<<"n", "x">>), (<<"n", "y">>)>>

\* the rank of the array at a position
Rank(p) == IF p = <<"n", "y">> THEN 1 ELSE 2

EmptyTree == <<>>

Restrict(tree, S) == [p \in (DOMAIN tree) \cap S |-> tree[p]]

\* the top-level keys of a tree
TopKeys(tree) == {p[1] : p \in DOMAIN tree}

\* mlx.utils.tree_map(fn, tree) on one tree: same shape, fn at every leaf
tree_map(fn(_), tree) == [p \in DOMAIN tree |-> fn(tree[p])]

\* dict.update on the top level: a key of other replaces the whole subtree
\* under that key, every other key is kept
dict_update(nodes, other) ==
    Let1({p \in DOMAIN nodes : p[1] \notin TopKeys(other)},
    LAMBDA kept :
        [p \in kept \cup DOMAIN other |-> IF p \in DOMAIN other THEN other[p] ELSE nodes[p]])

\* tree_map(self.init_single, parameters, self._state): init_single fills
\* the node at every leaf of parameters
tree_map_init(hp, parameters, nodes) ==
    [p \in DOMAIN nodes |->
        IF p \in DOMAIN parameters THEN init_single(hp, parameters[p], nodes[p]) ELSE nodes[p]]

\* one leaf of tree_map(self.apply_single, gradients, parameters, self.state):
\* acc after apply_single ran at path p
tree_map_leaf(hp, lr, p, acc) ==
    Let1(apply_single(hp, lr, acc.gradients[p], acc.parameters[p], acc.nodes[p]),
    LAMBDA r :
        [err |-> r.err,
         out |-> IF r.err # "" THEN EmptyTree ELSE (p :> r.out) @@ acc.out,
         nodes |-> [acc.nodes EXCEPT ![p] = r.state],
         gradients |-> [acc.gradients EXCEPT ![p] = r.gradient],
         parameters |-> [acc.parameters EXCEPT ![p] = r.parameter]])

\* tree_map(self.apply_single, gradients, parameters, self.state) from the
\* i-th position on: the leaves of gradients in order, with the leaf of
\* parameters and the node of the state at the same path; a path missing in
\* either raises KeyError at that leaf, after the leaves before it were done.
\* acc carries the tree built so far, the state nodes and the caller's arrays.
RECURSIVE tree_map_apply(_, _, _, _)
tree_map_apply(hp, lr, i, acc) ==
    IF i > Len(PathOrder) \/ acc.err # "" THEN acc
    ELSE IF PathOrder[i] \notin DOMAIN acc.gradients THEN tree_map_apply(hp, lr, i + 1, acc)
    ELSE IF PathOrder[i] \notin DOMAIN acc.parameters \/ PathOrder[i] \notin DOMAIN acc.nodes
    THEN [acc EXCEPT !.err = "KeyError", !.out = EmptyTree]
    ELSE Let1(tree_map_leaf(hp, lr, PathOrder[i], acc),
         LAMBDA a : tree_map_apply(hp, lr, i + 1, a))

(***************************************************************************)
(* Optimizer: the engine.  A state dict is [lr, nodes]: the reserved       *)
(* top-level entry learning_rate (NoLR: absent) and the per-leaf nodes.    *)
(***************************************************************************)
\* mx.array(learning_rate): the scalar as an array, in the precision of the
\* model's floats
mx_array(v) == Norm(v[1], v[2])

\* Optimizer.__init__ and the subclass constructor's learning_rate assignment
NewState(hp) == [lr |-> IF hp.lr = NoLR THEN NoLR ELSE mx_array(hp.lr), nodes |-> EmptyTree]

\* the learning_rate getter: self.state["learning_rate"]
learning_rate(state) ==
    IF state.lr = NoLR THEN [err |-> "KeyError", val |-> NaN] ELSE [err |-> "", val |-> state.lr]

\* Optimizer.init: the state dict after init(parameters)
init(hp, parameters, state) ==
    Let1(dict_update(state.nodes, tree_map(LAMBDA x : EmptyNode, parameters)),
    LAMBDA nodes : [state EXCEPT !.nodes = tree_map_init(hp, parameters, nodes)])

\* a variant of apply_gradients that returns a tree of the shape of parameters
apply_gradients_full(hp, initialized, state, gradients, parameters) ==
    Let1(IF ~initialized THEN init(hp, gradients, state) ELSE state,
    LAMBDA st :
    Let1(tree_map_apply(hp, st.lr, 1,
             [err |-> "", out |-> EmptyTree, nodes |-> st.nodes,
              gradients |-> gradients, parameters |-> parameters]),
    LAMBDA r :
        [err |-> r.err,
         out |-> IF r.err # "" THEN r.out
                 ELSE [p \in DOMAIN parameters |->
                          IF p \in DOMAIN r.out THEN r.out[p] ELSE parameters[p]],
         state |-> [st EXCEPT !.nodes = r.nodes],
         initialized |-> TRUE, gradients |-> r.gradients, parameters |-> r.parameters]))

\* a variant of apply_gradients that skips the gradients without a parameter
apply_gradients_known(hp, initialized, state, gradients, parameters) ==
    Let1(IF ~initialized THEN init(hp, gradients, state) ELSE state,
    LAMBDA st :
    Let1(tree_map_apply(hp, st.lr, 1,
             [err |-> "", out |-> EmptyTree, nodes |-> st.nodes,
              gradients |-> Restrict(gradients, DOMAIN parameters),
              parameters |-> parameters]),
    LAMBDA r :
        [err |-> r.err, out |-> r.out, state |-> [st EXCEPT !.nodes = r.nodes],
         initialized |-> TRUE, gradients |-> r.gradients @@ gradients,
         parameters |-> r.parameters]))

\* a variant of apply_gradients that keeps only the state nodes of the
\* leaves of gradients
apply_gradients_pruned(hp, initialized, state, gradients, parameters) ==
    Let1(IF ~initialized THEN init(hp, gradients, state) ELSE state,
    LAMBDA st :
    Let1(tree_map_apply(hp, st.lr, 1,
             [err |-> "", out |-> EmptyTree, nodes |-> st.nodes,
              gradients |-> gradients, parameters |-> parameters]),
    LAMBDA r :
        [err |-> r.err, out |-> r.out,
         state |-> [st EXCEPT !.nodes = Restrict(r.nodes, DOMAIN gradients)],
         initialized |-> TRUE, gradients |-> r.gradients, parameters |-> r.parameters]))

\* a variant of apply_gradients that initializes the state at every call
apply_gradients_reinit(hp, initialized, state, gradients, parameters) ==
    Let1(init(hp, gradients, state),
    LAMBDA st :
    Let1(tree_map_apply(hp, st.lr, 1,
             [err |-> "", out |-> EmptyTree, nodes |-> st.nodes,
              gradients |-> gradients, parameters |-> parameters]),
    LAMBDA r :
        [err |-> r.err, out |-> r.out, state |-> [st EXCEPT !.nodes = r.nodes],
         initialized |-> TRUE, gradients |-> r.gradients, parameters |-> r.parameters]))

\* Optimizer.apply_gradients: the error or the tree returned, the state dict
\* and the flag afterwards, and the arrays of the caller
apply_gradients(hp, initialized, state, gradients, parameters) ==
    Let1(IF ~initialized THEN init(hp, gradients, state) ELSE state,
    LAMBDA st :
    Let1(tree_map_apply(hp, st.lr, 1,
             [err |-> "", out |-> EmptyTree, nodes |-> st.nodes,
              gradients |-> gradients, parameters |-> parameters]),
    LAMBDA r :
        [err |-> r.err, out |-> r.out, state |-> [st EXCEPT !.nodes = r.nodes],
         initialized |-> TRUE, gradients |-> r.gradients, parameters |-> r.parameters]))

\* nn.Module.update(tree): the leaves of tree replace the model's at the
\* same positions
Module_update(params, tree) ==
    [p \in DOMAIN params |-> IF p \in DOMAIN tree THEN tree[p] ELSE params[p]]

\* a variant of update that does not write the result back
update_unwritten(hp, initialized, state, params, gradients) ==
    Let1(apply_gradients(hp, initialized, state, gradients, params),
    LAMBDA r :
        [err |-> r.err, state |-> r.state, initialized |-> r.initialized,
         gradients |-> r.gradients, params |-> r.parameters])

\* Optimizer.update: model.update(self.apply_gradients(gradients, model));
\* the model's arrays are the ones apply_gradients is handed
update(hp, initialized, state, params, gradients) ==
    Let1(apply_gradients(hp, initialized, state, gradients, params),
    LAMBDA r :
        [err |-> r.err, state |-> r.state, initialized |-> r.initialized,
         gradients |-> r.gradients,
         params |-> IF r.err = "" THEN Module_update(r.parameters, r.out) ELSE r.parameters])

(***************************************************************************)
(* State                                                                   *)
(***************************************************************************)
VARIABLES
    hp,           \* the rule and its hyperparameters (both engines have the same)
    initialized,  \* Optimizer._initialized of each engine
    sref,         \* Optimizer._state of each engine: a reference to a dict
    heap,         \* the state dicts
    model,        \* the model's parameter tree
    sched,        \* the scheduler object
    ret,          \* the last call: operation, arguments, error raised, value returned
    applied,      \* history: the engines that have completed an apply_gradients or update
    inorder,      \* history: the scheduler was stepped at the epochs 0, 1, 2, ... so far
    ncalls        \* the number of calls made

vars == <<hp, initialized, sref, heap, model, sched, ret, applied, inorder, ncalls>>

Engines == {"E1", "E2"}

StateIds == {1, 2}

\* the calls of one run of the engines
MaxCalls == 3

\* a dict no engine refers to
Free == [lr |-> NoLR, nodes |-> EmptyTree]

\* the values of gradient leaves and of learning rates assigned by the caller
GradVals == {One}

LRVals == {Q(1, 2)}

\* the shapes of the gradient trees a caller passes and of the parameter
\* trees init is called with
GradShapes == {{<<"w">>}, {<<"w">>, <<"n", "y">>}, Paths}

InitShapes == {{<<"w">>, <<"n", "y">>}, Paths}

\* the gradient trees a caller passes: arrays of the parameters' ranks
GradTrees == UNION {[S -> GradVals] : S \in GradShapes}

\* the parameter trees apply_gradients is handed: the whole model, or the
\* model without one of its arrays
ParamSets == {Paths, Paths \ {<<"n", "x">>}}

GradTree(f) == [p \in DOMAIN f |-> Leaf(f[p], Rank(p))]

\* the rules of the engines of a run
EngineConfigs ==
    { [HP0 EXCEPT !.kind = "SGD", !.lr = Q(1, 10), !.momentum = Q(9, 10)],
      [HP0 EXCEPT !.kind = "Adafactor", !.lr = NoLR, !.relative_step = TRUE,
                  !.weight_decay = One, !.eps = One, !.decay_rate = -1] }

\* no scheduler object
NoSched == <<>>

NoRet ==
    [op |-> "", eng |-> "", src |-> "", epoch |-> None, args |-> <<>>,
     gradients |-> EmptyTree, parameters |-> EmptyTree,
     err |-> "", out |-> EmptyTree,
     gradients_after |-> EmptyTree, parameters_after |-> EmptyTree]

\* the state dict of an engine
StateOf(e) == heap[sref[e]]

\* the dicts some engine refers to, given the references
Live(refs) == {refs[e] : e \in Engines}

Collect(h, refs) == [i \in StateIds |-> IF i \in Live(refs) THEN h[i] ELSE Free]

InitEngine ==
    /\ hp \in EngineConfigs
    /\ initialized = [e \in Engines |-> FALSE]
    /\ sref = [e \in Engines |-> IF e = "E1" THEN 1 ELSE 2]
    /\ heap = [i \in StateIds |-> NewState(hp)]
    /\ model = [p \in Paths |-> Leaf(One, Rank(p))]
    /\ sched = NoSched
    /\ ret = NoRet
    /\ applied = {}
    /\ inorder = TRUE
    /\ ncalls = 0

\* The second engine is the fresh engine of a state transfer: it is called
\* once it holds a state with per-leaf nodes.
InUse(e) == e = "E1" \/ initialized[e] \/ DOMAIN StateOf(e).nodes # {}

\* optimizer.init(parameters) on a tree of the model's parameters
DoInit(e, S) ==
    /\ ncalls < MaxCalls
    /\ InUse(e)
    /\ \E P \in {Restrict(model, S)} :
           /\ heap' = [heap EXCEPT ![sref[e]] = init(hp, P, @)]
           /\ ret' = [NoRet EXCEPT !.op = "init", !.eng = e, !.parameters = P,
                                   !.parameters_after = P]
    /\ initialized' = [initialized EXCEPT ![e] = TRUE]
    /\ ncalls' = ncalls + 1
    /\ UNCHANGED <<hp, sref, model, sched, applied, inorder>>

\* optimizer.apply_gradients(gradients, parameters), the parameters being
\* some of the model's arrays
DoApplyGradients(e, f, S) ==
    /\ ncalls < MaxCalls
    /\ InUse(e)
    /\ \E G \in {GradTree(f)}, P \in {Restrict(model, S)} :
       \E r \in {apply_gradients(hp, initialized[e], StateOf(e), G, P)} :
           /\ heap' = [heap EXCEPT ![sref[e]] = r.state]
           /\ initialized' = [initialized EXCEPT ![e] = r.initialized]
           /\ model' = [p \in DOMAIN model |->
                           IF p \in DOMAIN r.parameters THEN r.parameters[p] ELSE model[p]]
           /\ ret' = [NoRet EXCEPT !.op = "apply_gradients", !.eng = e, !.gradients = G,
                                   !.parameters = P, !.err = r.err, !.out = r.out,
                                   !.gradients_after = r.gradients,
                                   !.parameters_after = r.parameters]
           /\ applied' = IF r.err = "" THEN applied \cup {e} ELSE applied
    /\ ncalls' = ncalls + 1
    /\ UNCHANGED <<hp, sref, sched, inorder>>

\* optimizer.update(model, gradients)
DoUpdate(e, f) ==
    /\ ncalls < MaxCalls
    /\ InUse(e)
    /\ \E G \in {GradTree(f)} :
       \E r \in {update(hp, initialized[e], StateOf(e), model, G)} :
           /\ heap' = [heap EXCEPT ![sref[e]] = r.state]
           /\ initialized' = [initialized EXCEPT ![e] = r.initialized]
           /\ model' = r.params
           /\ ret' = [NoRet EXCEPT !.op = "update", !.eng = e, !.gradients = G,
                                   !.parameters = model, !.err = r.err,
                                   !.gradients_after = r.gradients,
                                   !.parameters_after = r.params]
           /\ applied' = IF r.err = "" THEN applied \cup {e} ELSE applied
    /\ ncalls' = ncalls + 1
    /\ UNCHANGED <<hp, sref, sched, inorder>>

\* e.state = o.state: the getter hands out the dict itself, the setter keeps
\* the reference it is given and leaves _initialized alone
SetState(e, o) ==
    /\ ncalls < MaxCalls
    /\ e # o
    /\ sref' = [sref EXCEPT ![e] = sref[o]]
    /\ heap' = Collect(heap, sref')
    /\ ret' = [NoRet EXCEPT !.op = "state_setter", !.eng = e, !.src = o]
    /\ ncalls' = ncalls + 1
    /\ UNCHANGED <<hp, initialized, model, sched, applied, inorder>>

\* e.state = copy.deepcopy(o.state): a saved and reloaded state
SetStateCopy(e, o) ==
    /\ ncalls < MaxCalls
    /\ e # o
    /\ \E i \in {IF sref[e] # sref[o] THEN sref[e] ELSE CHOOSE j \in StateIds : j # sref[o]} :
           /\ sref' = [sref EXCEPT ![e] = i]
           /\ heap' = [heap EXCEPT ![i] = StateOf(o)]
    /\ ret' = [NoRet EXCEPT !.op = "state_setter", !.eng = e, !.src = o]
    /\ ncalls' = ncalls + 1
    /\ UNCHANGED <<hp, initialized, model, sched, applied, inorder>>

\* optimizer.learning_rate = v
SetLearningRate(e, v) ==
    /\ ncalls < MaxCalls
    /\ InUse(e)
    /\ heap' = [heap EXCEPT ![sref[e]].lr = mx_array(v)]
    /\ ret' = [NoRet EXCEPT !.op = "learning_rate_setter", !.eng = e]
    /\ ncalls' = ncalls + 1
    /\ UNCHANGED <<hp, initialized, sref, model, sched, applied, inorder>>

NextEngine ==
    \/ \E e \in Engines, S \in InitShapes : DoInit(e, S)
    \/ \E e \in Engines, f \in GradTrees, S \in ParamSets : DoApplyGradients(e, f, S)
    \/ \E e \in Engines, f \in GradTrees : DoUpdate(e, f)
    \/ \E e \in Engines, o \in Engines : SetState(e, o)
    \/ \E e \in Engines, o \in Engines : SetStateCopy(e, o)
    \/ \E e \in Engines, v \in LRVals : SetLearningRate(e, v)

Spec == InitEngine /\ [][NextEngine]_vars

(***************************************************************************)
(* One leaf: an engine of any rule, explicitly initialized on a model of   *)
(* one array, and apply_single called on that leaf with gradients of any   *)
(* rank.  The node is the one of engine E1 at path w.                      *)
(***************************************************************************)
LeafPath == <<"w">>

\* the calls of one run on the leaf
MaxLeafCalls == 3

Tenth == Q(1, 10)

Half == Q(1, 2)

\* the rules and hyperparameters of the leaf runs
LeafConfigs ==
    { [HP0 EXCEPT !.kind = "SGD", !.lr = Tenth, !.momentum = Q(9, 10)],
      [HP0 EXCEPT !.kind = "SGD", !.lr = Tenth],
      [HP0 EXCEPT !.kind = "SGD", !.lr = Tenth, !.momentum = Half, !.weight_decay = Tenth,
                  !.dampening = Half],
      [HP0 EXCEPT !.kind = "SGD", !.lr = Tenth, !.momentum = Half, !.nesterov = TRUE],
      [HP0 EXCEPT !.kind = "RMSprop", !.lr = Tenth, !.alpha = Half, !.eps = Q(1, 100)],
      [HP0 EXCEPT !.kind = "Adagrad", !.lr = Tenth, !.eps = Q(1, 100)],
      [HP0 EXCEPT !.kind = "AdaDelta", !.lr = Tenth, !.rho = Half, !.eps = Q(1, 100)],
      [HP0 EXCEPT !.kind = "Adam", !.lr = Tenth, !.b1 = Half, !.b2 = Half, !.eps = Q(1, 100)],
      \* the defaults of Adam; eps = 1e-8 is below the precision of the model
      [HP0 EXCEPT !.kind = "Adam", !.lr = Q(1, 1000), !.b1 = Q(9, 10), !.b2 = Q(999, 1000),
                  !.eps = Q(1, 100000000)],
      [HP0 EXCEPT !.kind = "AdamW", !.lr = Tenth, !.b1 = Half, !.b2 = Half, !.eps = Q(1, 100),
                  !.weight_decay = Tenth],
      [HP0 EXCEPT !.kind = "Adamax", !.lr = Tenth, !.b1 = Half, !.b2 = Half, !.eps = Q(1, 100)],
      [HP0 EXCEPT !.kind = "Lion", !.lr = Tenth, !.b1 = Half, !.b2 = Half],
      [HP0 EXCEPT !.kind = "Lion", !.lr = Tenth, !.b1 = Half, !.b2 = Half,
                  !.weight_decay = Tenth],
      [HP0 EXCEPT !.kind = "Adafactor", !.lr = NoLR, !.relative_step = TRUE,
                  !.scale_parameter = TRUE, !.eps = Q(1, 100), !.eps2 = Q(1, 1000),
                  !.decay_rate = -1],
      [HP0 EXCEPT !.kind = "Adafactor", !.lr = NoLR, !.relative_step = TRUE,
                  !.eps = Q(1, 100), !.decay_rate = -1, !.beta_1 = Half,
                  !.weight_decay = Tenth],
      [HP0 EXCEPT !.kind = "Adafactor", !.lr = Tenth, !.eps = Q(1, 100), !.decay_rate = -1] }

\* the ranks of the arrays and the values of the gradients of the leaf runs
LeafRanks == {1, 2}

LeafGradVals == {Zero, One, Q(-1, 2)}

\* the state node of the leaf; EmptyNode before init
LeafNode == IF LeafPath \in DOMAIN heap[1].nodes THEN heap[1].nodes[LeafPath] ELSE EmptyNode

\* the engine just constructed, and a model of one array
InitLeaf ==
    /\ hp \in LeafConfigs
    /\ initialized = [e \in Engines |-> FALSE]
    /\ sref = [e \in Engines |-> IF e = "E1" THEN 1 ELSE 2]
    /\ heap = [i \in StateIds |-> IF i = 1 THEN NewState(hp) ELSE Free]
    /\ model \in {(LeafPath :> Leaf(v, k)) : v \in {Zero, One}, k \in LeafRanks}
    /\ sched = NoSched
    /\ ret = NoRet
    /\ applied = {}
    /\ inorder = TRUE
    /\ ncalls = 0

\* optimizer.init(model parameters): init_single on a fresh node of the leaf
LeafInitSingle ==
    /\ ~initialized["E1"]
    /\ heap' = [heap EXCEPT ![1] = init(hp, model, @)]
    /\ initialized' = [initialized EXCEPT !["E1"] = TRUE]
    /\ ret' = [NoRet EXCEPT !.op = "init_single", !.eng = "E1", !.parameters = model,
                            !.parameters_after = model]
    /\ UNCHANGED <<hp, sref, model, sched, applied, inorder, ncalls>>

\* apply_single(gradient, parameter, node) on the leaf; the caller keeps the
\* array returned as the parameter of the next call
LeafApplySingle(g, k) ==
    /\ initialized["E1"]
    /\ ncalls < MaxLeafCalls
    /\ \E G \in {Leaf(g, k)} :
       \E r \in {apply_single(hp, heap[1].lr, G, model[LeafPath], LeafNode)} :
           /\ heap' = [heap EXCEPT ![1].nodes = (LeafPath :> r.state)]
           /\ model' = (LeafPath :> IF r.err = "" THEN r.out ELSE r.parameter)
           /\ ret' = [NoRet EXCEPT !.op = "apply_single", !.eng = "E1",
                                   !.gradients = (LeafPath :> G), !.parameters = model,
                                   !.err = r.err,
                                   !.out = IF r.err = "" THEN (LeafPath :> r.out) ELSE EmptyTree,
                                   !.gradients_after = (LeafPath :> r.gradient),
                                   !.parameters_after = (LeafPath :> r.parameter)]
           /\ applied' = IF r.err = "" THEN applied \cup {"E1"} ELSE applied
    /\ ncalls' = ncalls + 1
    /\ UNCHANGED <<hp, initialized, sref, sched, inorder>>

NextLeaf ==
    \/ LeafInitSingle
    \/ \E g \in LeafGradVals, k \in LeafRanks : LeafApplySingle(g, k)

SpecLeaf == InitLeaf /\ [][NextLeaf]_vars


(***************************************************************************)
(* Construction of an engine.  The arguments of a constructor are a record *)
(* of the shape of the hyperparameters; what a constructor returns is the  *)
(* error it raises, or the hyperparameters of the engine it has made.      *)
(***************************************************************************)
\* no engine constructed yet
NoEngine == [HP0 EXCEPT !.kind = "none"]

Accept(args) == [err |-> "", hp |-> args]

Reject(err) == [err |-> err, hp |-> NoEngine]

\* a variant of SGD.__init__ that asks for a momentum only
SGD_new_any_dampening(args) ==
    IF args.nesterov /\ Le(args.momentum, Zero) THEN Reject("ValueError") ELSE Accept(args)

\* SGD.__init__: Nesterov momentum requires a momentum and zero dampening
SGD_new(args) ==
    IF args.nesterov /\ (Le(args.momentum, Zero) \/ args.dampening # Zero)
    THEN Reject("ValueError")
    ELSE Accept(args)

\* RMSprop.__init__: alpha < 0.0 and eps < 0.0 are refused
RMSprop_new(args) ==
    IF Lt(args.alpha, Zero) THEN Reject("ValueError")
    ELSE IF Lt(args.eps, Zero) THEN Reject("ValueError")
    ELSE Accept(args)

\* Adagrad.__init__: eps < 0.0 is refused
Adagrad_new(args) == IF Lt(args.eps, Zero) THEN Reject("ValueError") ELSE Accept(args)

\* AdaDelta.__init__: rho < 0.0 and eps < 0.0 are refused
AdaDelta_new(args) ==
    IF Lt(args.rho, Zero) THEN Reject("ValueError")
    ELSE IF Lt(args.eps, Zero) THEN Reject("ValueError")
    ELSE Accept(args)

\* Adam.__init__ and AdamW.__init__ check nothing
Adam_new(args) == Accept(args)

AdamW_new(args) == Adam_new(args)

\* Adamax.__init__: Adam's, then not 0.0 <= eps is refused
Adamax_new(args) ==
    Let1(Adam_new(args),
    LAMBDA r : IF r.err # "" THEN r
               ELSE IF ~Le(Zero, args.eps) THEN Reject("ValueError") ELSE r)

\* Lion.__init__ and Adafactor.__init__ check nothing; Adafactor assigns the
\* learning rate only when one is given
Lion_new(args) == Accept(args)

Adafactor_new(args) == Accept(args)

\* Rule(...): the constructor of the class named
Optimizer_new(args) ==
    CASE args.kind = "SGD" -> SGD_new(args)
      [] args.kind = "RMSprop" -> RMSprop_new(args)
      [] args.kind = "Adagrad" -> Adagrad_new(args)
      [] args.kind = "AdaDelta" -> AdaDelta_new(args)
      [] args.kind = "Adam" -> Adam_new(args)
      [] args.kind = "AdamW" -> AdamW_new(args)
      [] args.kind = "Adamax" -> Adamax_new(args)
      [] args.kind = "Lion" -> Lion_new(args)
      [] args.kind = "Adafactor" -> Adafactor_new(args)

\* the arguments given to the constructors
NewArgs ==
    LET NewRates == {Zero, Tenth}
        NewEps == {Q(-1, 100), Zero, Q(1, 100)}
    IN
        { [HP0 EXCEPT !.kind = "SGD", !.lr = l, !.momentum = m, !.weight_decay = w,
                      !.dampening = d, !.nesterov = n] :
            l \in NewRates, m \in {Q(-1, 2), Zero, Q(9, 10)}, w \in {Zero, Tenth},
            d \in {Q(-1, 2), Zero, Half}, n \in BOOLEAN }
        \cup { [HP0 EXCEPT !.kind = "RMSprop", !.lr = l, !.alpha = a, !.eps = e] :
                 l \in NewRates, a \in {Q(-1, 2), Zero, Half, Q(2, 1)}, e \in NewEps }
        \cup { [HP0 EXCEPT !.kind = "Adagrad", !.lr = l, !.eps = e] : l \in NewRates, e \in NewEps }
        \cup { [HP0 EXCEPT !.kind = "AdaDelta", !.lr = l, !.rho = r, !.eps = e] :
                 l \in NewRates, r \in {Q(-1, 2), Half}, e \in NewEps }
        \cup { [HP0 EXCEPT !.kind = k, !.lr = l, !.b1 = Half, !.b2 = Half, !.eps = e] :
                 k \in {"Adam", "Adamax"}, l \in NewRates, e \in NewEps }
        \cup { [HP0 EXCEPT !.kind = "AdamW", !.lr = l, !.b1 = Half, !.b2 = Half, !.eps = Q(1, 100),
                           !.weight_decay = w] :
                 l \in NewRates, w \in {Zero, Tenth} }
        \cup { [HP0 EXCEPT !.kind = "Lion", !.lr = l, !.b1 = Half, !.b2 = Half, !.weight_decay = w] :
                 l \in NewRates, w \in {Zero, Tenth} }
        \cup { [HP0 EXCEPT !.kind = "Adafactor", !.lr = l, !.eps = e, !.eps2 = Q(1, 1000),
                           !.decay_rate = -1, !.weight_decay = w, !.scale_parameter = TRUE,
                           !.relative_step = r] :
                 l \in {NoLR, Zero}, e \in {Zero, Q(1, 100)}, w \in {Zero, Tenth}, r \in BOOLEAN }

\* no engine yet, and a model of one array
InitNew ==
    /\ hp = NoEngine
    /\ initialized = [e \in Engines |-> FALSE]
    /\ sref = [e \in Engines |-> IF e = "E1" THEN 1 ELSE 2]
    /\ heap = [i \in StateIds |-> Free]
    /\ model \in {(LeafPath :> Leaf(One, k)) : k \in LeafRanks}
    /\ sched = NoSched
    /\ ret = NoRet
    /\ applied = {}
    /\ inorder = TRUE
    /\ ncalls = 0

\* optimizer = Rule(...): engine E1 when the constructor returns
New(args) ==
    /\ hp = NoEngine
    /\ \E r \in {Optimizer_new(args)} :
           /\ hp' = r.hp
           /\ heap' = [heap EXCEPT ![1] = IF r.err = "" THEN NewState(r.hp) ELSE @]
           /\ ret' = [NoRet EXCEPT !.op = "new", !.eng = "E1", !.args = args, !.err = r.err]
    /\ UNCHANGED <<initialized, sref, model, sched, applied, inorder, ncalls>>

\* construction, then the calls of the leaf runs on the engine constructed
NextNew ==
    \/ \E a \in NewArgs : New(a)
    \/ hp # NoEngine /\ LeafInitSingle
    \/ hp # NoEngine /\ \E g \in LeafGradVals, k \in LeafRanks : LeafApplySingle(g, k)

SpecNew == InitNew /\ [][NextNew]_vars
(***************************************************************************)
(* Learning-rate schedulers.  A scheduler object is a record of its        *)
(* attributes; attrs is the set of attributes assigned so far, so that a   *)
(* read of an attribute not yet assigned raises AttributeError.  The       *)
(* optimizer every scheduler is bound to is engine E1.  An epoch argument  *)
(* is <<e>>, or None when the caller gives none.                           *)
(***************************************************************************)
SchedKinds ==
    {"StepLR", "ExponentialLR", "MultiStepLR", "LambdaLR", "PolynomialLR", "CosineAnnealingLR"}

\* an object on which no attribute is assigned yet
Sched0 ==
    [kind |-> "LRScheduler", attrs |-> {}, last_epoch |-> 0, base_lr |-> NoLR,
     step_size |-> 0, gamma |-> Zero, milestones |-> <<>>, lr_lambda |-> "",
     max_decay_steps |-> 0, end_lr |-> Zero, power |-> 0, T_max |-> 0, eta_min |-> Zero,
     schedulers |-> <<>>, current |-> 0]

BaseAttrs == {"optimizer", "last_epoch", "base_lr"}

\* the attributes the constructor of a variant assigns after super().__init__
OwnAttrs(kind) ==
    CASE kind = "StepLR" -> {"step_size", "gamma"}
      [] kind = "ExponentialLR" -> {"gamma"}
      [] kind = "MultiStepLR" -> {"milestones", "gamma"}
      [] kind = "LambdaLR" -> {"lr_lambda"}
      [] kind = "PolynomialLR" -> {"max_decay_steps", "end_lr", "power"}
      [] kind = "CosineAnnealingLR" -> {"T_max", "eta_min"}
      [] kind = "SequentialLR" -> {"schedulers", "milestones", "current_scheduler"}
      [] OTHER -> {}

\* Python's a // b on integers, b # 0
FloorDiv(a, b) == IF b > 0 THEN a \div b ELSE (-a) \div (-b)

\* sum(last_epoch >= milestone for milestone in milestones)
CountReached(milestones, e) == Cardinality({i \in DOMAIN milestones : e >= milestones[i]})

\* sorted(milestones)
RECURSIVE Insert(_, _)
Insert(x, s) ==
    IF s = <<>> THEN <<x>>
    ELSE IF x <= Head(s) THEN <<x>> \o s ELSE <<Head(s)>> \o Insert(x, Tail(s))

RECURSIVE sorted(_)
sorted(s) == IF s = <<>> THEN <<>> ELSE Insert(Head(s), sorted(Tail(s)))

\* the user's callable of LambdaLR, by name
lr_lambda(name, e) == IF name = "half" THEN Half ELSE Q(e, 1)

\* math.cos(math.pi * e / T) where the angle is a multiple of pi / 2
\* (T divides 2 * e): 1, 0, -1, 0 by quarter turns; the float result at an
\* odd quarter turn is within 1e-16 of 0
cos_pi(e, T) ==
    Let1(((2 * Abs(e)) \div Abs(T)) % 4,
    LAMBDA k : IF k = 0 THEN One ELSE IF k = 2 THEN Neg(One) ELSE Zero)

OkLR(v) == [err |-> "", val |-> v]

ErrLR(e) == [err |-> e, val |-> NaN]

\* a variant of StepLR.get_lr that rounds the quotient up
StepLR_get_lr_ceil(s) ==
    IF ~({"gamma", "step_size"} \subseteq s.attrs) THEN ErrLR("AttributeError")
    ELSE IF s.step_size = 0 THEN ErrLR("ZeroDivisionError")
    ELSE Let1(-FloorDiv(-s.last_epoch, s.step_size),
         LAMBDA k : IF s.gamma = Zero /\ k < 0 THEN ErrLR("ZeroDivisionError")
                    ELSE OkLR(Mul(s.base_lr, Pow(s.gamma, k))))

StepLR_get_lr(s) ==
    IF ~({"gamma", "step_size"} \subseteq s.attrs) THEN ErrLR("AttributeError")
    ELSE IF s.step_size = 0 THEN ErrLR("ZeroDivisionError")
    ELSE Let1(FloorDiv(s.last_epoch, s.step_size),
         LAMBDA k : IF s.gamma = Zero /\ k < 0 THEN ErrLR("ZeroDivisionError")
                    ELSE OkLR(Mul(s.base_lr, Pow(s.gamma, k))))

ExponentialLR_get_lr(s) ==
    IF "gamma" \notin s.attrs THEN ErrLR("AttributeError")
    ELSE IF s.gamma = Zero /\ s.last_epoch < 0 THEN ErrLR("ZeroDivisionError")
    ELSE OkLR(Mul(s.base_lr, Pow(s.gamma, s.last_epoch)))

MultiStepLR_get_lr(s) ==
    IF ~({"gamma", "milestones"} \subseteq s.attrs) THEN ErrLR("AttributeError")
    ELSE OkLR(Mul(s.base_lr, Pow(s.gamma, CountReached(s.milestones, s.last_epoch))))

LambdaLR_get_lr(s) ==
    IF "lr_lambda" \notin s.attrs THEN ErrLR("AttributeError")
    ELSE OkLR(Mul(s.base_lr, lr_lambda(s.lr_lambda, s.last_epoch)))

PolynomialLR_get_lr(s) ==
    IF ~({"max_decay_steps", "end_lr", "power"} \subseteq s.attrs) THEN ErrLR("AttributeError")
    ELSE IF s.max_decay_steps = 0 THEN ErrLR("ZeroDivisionError")
    ELSE Let1(Sub(One, Q(IF s.last_epoch < s.max_decay_steps
                         THEN s.last_epoch ELSE s.max_decay_steps, s.max_decay_steps)),
         LAMBDA b : IF b = Zero /\ s.power < 0 THEN ErrLR("ZeroDivisionError")
                    ELSE OkLR(Add(Mul(Sub(s.base_lr, s.end_lr), Pow(b, s.power)), s.end_lr)))

CosineAnnealingLR_get_lr(s) ==
    IF s.last_epoch = 0 THEN OkLR(s.base_lr)
    ELSE IF ~({"T_max", "eta_min"} \subseteq s.attrs) THEN ErrLR("AttributeError")
    ELSE IF s.T_max = 0 THEN ErrLR("ZeroDivisionError")
    ELSE OkLR(Add(s.eta_min,
                  Div(Mul(Sub(s.base_lr, s.eta_min), Add(One, cos_pi(s.last_epoch, s.T_max))),
                      Q(2, 1))))

\* self.get_lr(): the variant's, NotImplementedError on the base class
get_lr(s) ==
    CASE s.kind = "StepLR" -> StepLR_get_lr(s)
      [] s.kind = "ExponentialLR" -> ExponentialLR_get_lr(s)
      [] s.kind = "MultiStepLR" -> MultiStepLR_get_lr(s)
      [] s.kind = "LambdaLR" -> LambdaLR_get_lr(s)
      [] s.kind = "PolynomialLR" -> PolynomialLR_get_lr(s)
      [] s.kind = "CosineAnnealingLR" -> CosineAnnealingLR_get_lr(s)
      [] OTHER -> ErrLR("NotImplementedError")

\* a variant of LRScheduler.step that computes the rate before it writes
\* last_epoch
LRScheduler_step_stale(s, state, epoch) ==
    Let1(get_lr(s),
    LAMBDA lr :
        IF lr.err # "" THEN [err |-> lr.err, sched |-> s, state |-> state]
        ELSE [err |-> "",
              sched |-> [s EXCEPT !.last_epoch =
                                      IF epoch = None THEN s.last_epoch + 1 ELSE epoch[1]],
              state |-> [state EXCEPT !.lr = mx_array(lr.val)]])

\* a variant of LRScheduler.step in the chained form: the rate written
\* becomes the base of the next step
LRScheduler_step_chained(s, state, epoch) ==
    Let1([s EXCEPT !.last_epoch = IF epoch = None THEN s.last_epoch + 1 ELSE epoch[1]],
    LAMBDA s1 :
    Let1(get_lr(s1),
    LAMBDA lr :
        IF lr.err # "" THEN [err |-> lr.err, sched |-> s1, state |-> state]
        ELSE [err |-> "", sched |-> [s1 EXCEPT !.base_lr = mx_array(lr.val)],
              state |-> [state EXCEPT !.lr = mx_array(lr.val)]]))

\* a variant of LRScheduler.step that replaces the optimizer's state dict by
\* one that holds the learning rate only
LRScheduler_step_fresh_state(s, state, epoch) ==
    Let1([s EXCEPT !.last_epoch = IF epoch = None THEN s.last_epoch + 1 ELSE epoch[1]],
    LAMBDA s1 :
    Let1(get_lr(s1),
    LAMBDA lr :
        IF lr.err # "" THEN [err |-> lr.err, sched |-> s1, state |-> state]
        ELSE [err |-> "", sched |-> s1,
              state |-> [lr |-> mx_array(lr.val), nodes |-> EmptyTree]]))

\* LRScheduler.step(epoch): the scheduler and the optimizer's state dict
\* afterwards; last_epoch is written before get_lr runs
LRScheduler_step(s, state, epoch) ==
    Let1([s EXCEPT !.last_epoch = IF epoch = None THEN s.last_epoch + 1 ELSE epoch[1]],
    LAMBDA s1 :
    Let1(get_lr(s1),
    LAMBDA lr :
        IF lr.err # "" THEN [err |-> lr.err, sched |-> s1, state |-> state]
        ELSE [err |-> "", sched |-> s1, state |-> [state EXCEPT !.lr = mx_array(lr.val)]]))

\* the object a scheduler is handed as its optimizer: whether it is an
\* instance of Optimizer, and its dict of state (of attributes, for an
\* object of another class)
Bound(isOptimizer, state) == [isOptimizer |-> isOptimizer, state |-> state]

\* a variant of LRScheduler.__init__ without the isinstance check
LRScheduler_init_unchecked(s, optimizer, last_epoch) ==
    IF optimizer.state.lr = NoLR
    THEN [err |-> "KeyError", sched |-> s, state |-> optimizer.state]
    ELSE LRScheduler_step([s EXCEPT !.attrs = BaseAttrs, !.last_epoch = last_epoch,
                                    !.base_lr = optimizer.state.lr],
                          optimizer.state, <<last_epoch>>)

\* LRScheduler.__init__(optimizer, last_epoch) on the object s, whose own
\* attributes the subclass assigns only after this returns
LRScheduler_init(s, optimizer, last_epoch) ==
    IF ~optimizer.isOptimizer
    THEN [err |-> "TypeError", sched |-> s, state |-> optimizer.state]
    ELSE IF optimizer.state.lr = NoLR
    THEN [err |-> "KeyError", sched |-> s, state |-> optimizer.state]
    ELSE LRScheduler_step([s EXCEPT !.attrs = BaseAttrs, !.last_epoch = last_epoch,
                                    !.base_lr = optimizer.state.lr],
                          optimizer.state, <<last_epoch>>)

\* the constructor of a variant: super().__init__(optimizer, last_epoch),
\* then the variant's own attributes from the arguments; an error leaves the
\* caller without an object
Scheduler_init(args, optimizer, last_epoch) ==
    Let1(LRScheduler_init([args EXCEPT !.attrs = {}], optimizer, last_epoch),
    LAMBDA r :
        IF r.err # "" THEN [err |-> r.err, sched |-> NoSched, state |-> r.state]
        ELSE [err |-> "",
              sched |-> [r.sched EXCEPT !.attrs = BaseAttrs \cup OwnAttrs(args.kind),
                                        !.milestones = sorted(args.milestones)],
              state |-> r.state])

\* milestones.index(epoch), counted from 1; 0 when epoch is no milestone
IndexOf(milestones, e) ==
    IF \E i \in DOMAIN milestones : milestones[i] = e
    THEN CHOOSE i \in DOMAIN milestones :
             milestones[i] = e /\ \A j \in DOMAIN milestones : milestones[j] = e => i <= j
    ELSE 0

\* a variant of SequentialLR.step that switches to the scheduler after the
\* one at the milestone's index, when there is one
SequentialLR_step_next(s, state, epoch) ==
    Let1([s EXCEPT !.last_epoch = IF epoch = None THEN s.last_epoch + 1 ELSE epoch[1]],
    LAMBDA s1 :
    Let1(IF IndexOf(s1.milestones, s1.last_epoch) = 0 THEN s1.current
         ELSE IF IndexOf(s1.milestones, s1.last_epoch) < Len(s1.schedulers)
         THEN IndexOf(s1.milestones, s1.last_epoch) + 1
         ELSE Len(s1.schedulers),
    LAMBDA i :
    Let1(LRScheduler_step(s1.schedulers[i], state, <<s1.last_epoch>>),
    LAMBDA r :
        [err |-> r.err, sched |-> [s1 EXCEPT !.current = i, !.schedulers[i] = r.sched],
         state |-> r.state])))

\* SequentialLR.step(epoch): on a milestone the current scheduler becomes
\* schedulers[milestones.index(epoch)], then the current scheduler steps
SequentialLR_step(s, state, epoch) ==
    Let1([s EXCEPT !.last_epoch = IF epoch = None THEN s.last_epoch + 1 ELSE epoch[1]],
    LAMBDA s1 :
    IF "milestones" \notin s1.attrs THEN [err |-> "AttributeError", sched |-> s1, state |-> state]
    ELSE
    Let1(IndexOf(s1.milestones, s1.last_epoch),
    LAMBDA i :
    IF i > 0 /\ "schedulers" \notin s1.attrs
    THEN [err |-> "AttributeError", sched |-> s1, state |-> state]
    ELSE IF i > Len(s1.schedulers) THEN [err |-> "IndexError", sched |-> s1, state |-> state]
    ELSE
    Let1(IF i > 0 THEN [s1 EXCEPT !.current = i, !.attrs = @ \cup {"current_scheduler"}] ELSE s1,
    LAMBDA s2 :
    IF "current_scheduler" \notin s2.attrs
    THEN [err |-> "AttributeError", sched |-> s2, state |-> state]
    ELSE
    Let1(LRScheduler_step(s2.schedulers[s2.current], state, <<s2.last_epoch>>),
    LAMBDA r :
        [err |-> r.err, sched |-> [s2 EXCEPT !.schedulers[s2.current] = r.sched],
         state |-> r.state]))))

\* SequentialLR.__init__: the argument of super().__init__ reads
\* self.current_scheduler, which is assigned only on the last line
SequentialLR_init(schedulers, milestones, state, last_epoch) ==
    Let1([Sched0 EXCEPT !.kind = "SequentialLR"],
    LAMBDA s :
        IF "current_scheduler" \notin s.attrs
        THEN [err |-> "AttributeError", sched |-> NoSched, state |-> state]
        ELSE IF state.lr = NoLR THEN [err |-> "KeyError", sched |-> NoSched, state |-> state]
        ELSE Let1(SequentialLR_step([s EXCEPT !.attrs = @ \cup BaseAttrs,
                                              !.last_epoch = last_epoch, !.base_lr = state.lr],
                                    state, <<last_epoch>>),
             LAMBDA r :
                 IF r.err # "" THEN [err |-> r.err, sched |-> NoSched, state |-> r.state]
                 ELSE IF schedulers = <<>>
                 THEN [err |-> "IndexError", sched |-> NoSched, state |-> r.state]
                 ELSE [err |-> "",
                       sched |-> [r.sched EXCEPT !.attrs = @ \cup OwnAttrs("SequentialLR"),
                                                 !.schedulers = schedulers,
                                                 !.milestones = milestones, !.current = 1],
                       state |-> r.state]))

(***************************************************************************)
(* Schedulers as the constructors build them                               *)
(***************************************************************************)
\* the largest epoch a run counts up to
MaxEpoch == 20

\* the optimizers schedulers are bound to
SchedEngineConfigs ==
    { [HP0 EXCEPT !.kind = "SGD", !.lr = One],
      [HP0 EXCEPT !.kind = "SGD", !.lr = Tenth] }

\* the constructor arguments of the variants
SchedArgs ==
    { [Sched0 EXCEPT !.kind = "StepLR", !.step_size = 10, !.gamma = Half],
      [Sched0 EXCEPT !.kind = "StepLR", !.step_size = 3, !.gamma = Tenth],
      [Sched0 EXCEPT !.kind = "StepLR", !.step_size = 0, !.gamma = Half],
      [Sched0 EXCEPT !.kind = "ExponentialLR", !.gamma = Half],
      [Sched0 EXCEPT !.kind = "MultiStepLR", !.milestones = <<5, 2>>, !.gamma = Half],
      [Sched0 EXCEPT !.kind = "LambdaLR", !.lr_lambda = "half"],
      [Sched0 EXCEPT !.kind = "LambdaLR", !.lr_lambda = "epoch"],
      [Sched0 EXCEPT !.kind = "PolynomialLR", !.max_decay_steps = 4, !.end_lr = Q(1, 100),
                     !.power = 2],
      [Sched0 EXCEPT !.kind = "PolynomialLR", !.max_decay_steps = 0, !.end_lr = Zero,
                     !.power = 1],
      [Sched0 EXCEPT !.kind = "CosineAnnealingLR", !.T_max = 2, !.eta_min = Zero],
      [Sched0 EXCEPT !.kind = "CosineAnnealingLR", !.T_max = 1, !.eta_min = Q(1, 100)] }

\* the initial epochs given to constructors, and the epochs given to step
InitEpochs == {-1, 0, 5}

StepEpochs == {None} \cup {<<e>> : e \in {0, 3, 5, 9, 10, 19, 20}}

\* the milestone lists given to SequentialLR
MilestoneLists == {<<5>>, <<3, 5>>}

\* an object of another class than Optimizer that has a learning_rate: its
\* attributes, in the shape of a state dict
NotAnOptimizer == [lr |-> One, nodes |-> EmptyTree]

\* the optimizer E1 just constructed; slot 2 holds the object that is no
\* Optimizer
InitSched ==
    /\ hp \in SchedEngineConfigs
    /\ initialized = [e \in Engines |-> FALSE]
    /\ sref = [e \in Engines |-> IF e = "E1" THEN 1 ELSE 2]
    /\ heap = [i \in StateIds |-> IF i = 1 THEN NewState(hp) ELSE NotAnOptimizer]
    /\ model = [p \in Paths |-> Leaf(One, Rank(p))]
    /\ sched = NoSched
    /\ ret = NoRet
    /\ applied = {}
    /\ inorder = TRUE
    /\ ncalls = 0

\* sched = Variant(optimizer, ..., last_epoch)
Construct(args, last_epoch) ==
    /\ sched = NoSched
    /\ \E r \in {Scheduler_init(args, Bound(TRUE, heap[1]), last_epoch)} :
           /\ sched' = r.sched
           /\ heap' = [heap EXCEPT ![1] = r.state]
           /\ ret' = [NoRet EXCEPT !.op = "construct", !.eng = "E1", !.args = args,
                                   !.epoch = <<last_epoch>>, !.err = r.err]
    /\ UNCHANGED <<hp, initialized, sref, model, applied, inorder, ncalls>>

\* Variant(obj, ..., last_epoch) on the object that is no Optimizer
ConstructOnObject(args, last_epoch) ==
    /\ sched = NoSched
    /\ \E r \in {Scheduler_init(args, Bound(FALSE, heap[2]), last_epoch)} :
           /\ sched' = r.sched
           /\ heap' = [heap EXCEPT ![2] = r.state]
           /\ ret' = [NoRet EXCEPT !.op = "construct_on_object", !.args = args,
                                   !.epoch = <<last_epoch>>, !.err = r.err]
    /\ UNCHANGED <<hp, initialized, sref, model, applied, inorder, ncalls>>

\* SequentialLR([sched, sched], milestones, last_epoch) on a scheduler that
\* was constructed; the caller keeps the scheduler it has when this raises
ConstructSequential(milestones, last_epoch) ==
    /\ sched # NoSched
    /\ sched.kind # "SequentialLR"
    /\ \E r \in {SequentialLR_init(<<sched, sched>>, milestones, heap[1], last_epoch)} :
           /\ sched' = IF r.err = "" THEN r.sched ELSE sched
           /\ heap' = [heap EXCEPT ![1] = r.state]
           /\ ret' = [NoRet EXCEPT !.op = "construct_sequential", !.eng = "E1",
                                   !.args = milestones, !.epoch = <<last_epoch>>,
                                   !.err = r.err]
    /\ UNCHANGED <<hp, initialized, sref, model, applied, inorder, ncalls>>

\* sched.step(epoch) on a scheduler of one of the six variants
SchedStep(epoch) ==
    /\ sched # NoSched
    /\ sched.kind \in SchedKinds
    /\ epoch = None => sched.last_epoch < MaxEpoch
    /\ \E r \in {LRScheduler_step(sched, heap[1], epoch)} :
           /\ sched' = r.sched
           /\ heap' = [heap EXCEPT ![1] = r.state]
           /\ ret' = [NoRet EXCEPT !.op = "step", !.eng = "E1", !.epoch = epoch,
                                   !.err = r.err]
           /\ inorder' = (inorder /\ r.sched.last_epoch = sched.last_epoch + 1)
    /\ UNCHANGED <<hp, initialized, sref, model, applied, ncalls>>

\* sched.step(epoch) on a SequentialLR
SequentialStep(epoch) ==
    /\ sched # NoSched
    /\ sched.kind = "SequentialLR"
    /\ epoch = None => sched.last_epoch < MaxEpoch
    /\ \E r \in {SequentialLR_step(sched, heap[1], epoch)} :
           /\ sched' = r.sched
           /\ heap' = [heap EXCEPT ![1] = r.state]
           /\ ret' = [NoRet EXCEPT !.op = "sequential_step", !.eng = "E1", !.epoch = epoch,
                                   !.err = r.err]
           /\ inorder' = (inorder /\ r.sched.last_epoch = sched.last_epoch + 1)
    /\ UNCHANGED <<hp, initialized, sref, model, applied, ncalls>>

NextSched ==
    \/ \E a \in SchedArgs, e \in InitEpochs : Construct(a, e)
    \/ \E a \in SchedArgs, e \in InitEpochs : ConstructOnObject(a, e)
    \/ \E m \in MilestoneLists, e \in InitEpochs : ConstructSequential(m, e)
    \/ \E e \in StepEpochs : SchedStep(e)

SpecSched == InitSched /\ [][NextSched]_vars

(***************************************************************************)
(* Schedulers with every attribute assigned: the objects the methods step  *)
(* and get_lr are written for, bound to an optimizer whose learning rate   *)
(* is the base rate, before any step.                                      *)
(***************************************************************************)
\* the object of a variant with the attributes of its constructor's arguments
Assigned(args, base_lr) ==
    [args EXCEPT !.attrs = BaseAttrs \cup OwnAttrs(args.kind), !.last_epoch = -1,
                 !.base_lr = base_lr, !.milestones = sorted(args.milestones)]

\* the pairs of sub-schedulers of a SequentialLR
SubSchedulers ==
    { << [Sched0 EXCEPT !.kind = "StepLR", !.step_size = 2, !.gamma = Half],
         [Sched0 EXCEPT !.kind = "ExponentialLR", !.gamma = Half] >>,
      << [Sched0 EXCEPT !.kind = "ExponentialLR", !.gamma = Half],
         [Sched0 EXCEPT !.kind = "StepLR", !.step_size = 10, !.gamma = Tenth] >> }

Sequential(subs, milestones, base_lr) ==
    [Sched0 EXCEPT !.kind = "SequentialLR",
                   !.attrs = BaseAttrs \cup OwnAttrs("SequentialLR"),
                   !.last_epoch = -1, !.base_lr = base_lr,
                   !.schedulers = <<Assigned(subs[1], base_lr), Assigned(subs[2], base_lr)>>,
                   !.milestones = milestones, !.current = 1]

InitSchedStep ==
    /\ hp \in SchedEngineConfigs
    /\ initialized = [e \in Engines |-> FALSE]
    /\ sref = [e \in Engines |-> IF e = "E1" THEN 1 ELSE 2]
    /\ heap = [i \in StateIds |-> IF i = 1 THEN NewState(hp) ELSE Free]
    /\ model = [p \in Paths |-> Leaf(One, Rank(p))]
    /\ sched \in {Assigned(a, heap[1].lr) : a \in SchedArgs}
                 \cup {Sequential(s, m, heap[1].lr) : s \in SubSchedulers, m \in MilestoneLists}
    /\ ret = NoRet
    /\ applied = {}
    /\ inorder = TRUE
    /\ ncalls = 0

NextSchedStep ==
    \/ \E e \in StepEpochs : SchedStep(e)
    \/ \E e \in StepEpochs : SequentialStep(e)

SpecSchedStep == InitSchedStep /\ [][NextSchedStep]_vars


(***************************************************************************)
(* A training loop: the optimizer E1 is initialized and called, its        *)
(* learning rate is assigned, and the scheduler bound to it is stepped, in *)
(* any order.                                                              *)
(***************************************************************************)
\* the largest epoch from which the scheduler of a training run is stepped
MaxTrainEpoch == 5

InitTrain ==
    /\ hp \in { [HP0 EXCEPT !.kind = "SGD", !.lr = Tenth, !.momentum = Q(9, 10)],
                [HP0 EXCEPT !.kind = "Adam", !.lr = Tenth, !.b1 = Half, !.b2 = Half,
                            !.eps = Q(1, 100)],
                [HP0 EXCEPT !.kind = "Adafactor", !.lr = Tenth, !.relative_step = TRUE,
                            !.scale_parameter = TRUE, !.eps = Q(1, 100),
                            !.eps2 = Q(1, 1000), !.decay_rate = -1,
                            !.weight_decay = Tenth] }
    /\ initialized = [e \in Engines |-> FALSE]
    /\ sref = [e \in Engines |-> IF e = "E1" THEN 1 ELSE 2]
    /\ heap = [i \in StateIds |-> IF i = 1 THEN NewState(hp) ELSE Free]
    /\ model = [p \in Paths |-> Leaf(One, Rank(p))]
    /\ sched \in {Assigned(a, heap[1].lr) : a \in {b \in SchedArgs : b.kind = "ExponentialLR"}}
                 \cup {Sequential(s, <<3, 5>>, heap[1].lr) :
                          s \in {t \in SubSchedulers : t[1].kind = "StepLR"}}
    /\ ret = NoRet
    /\ applied = {}
    /\ inorder = TRUE
    /\ ncalls = 0

NextTrain ==
    \/ DoInit("E1", Paths)
    \/ \E f \in {g \in GradTrees : DOMAIN g # Paths} : DoApplyGradients("E1", f, Paths)
    \/ \E v \in LRVals : SetLearningRate("E1", v)
    \/ \E e \in {None, <<5>>} : sched.last_epoch < MaxTrainEpoch /\ SchedStep(e)
    \/ \E e \in {None, <<5>>} : sched.last_epoch < MaxTrainEpoch /\ SequentialStep(e)

SpecTrain == InitTrain /\ [][NextTrain]_vars
(***************************************************************************)
(* Properties                                                              *)
(***************************************************************************)
\* the state node apply_single is handed at path p when engine e is called
\* with the gradients G: the engine's node, or the one the lazy
\* initialization makes from the gradient
NodeAtCall(e, G, p) ==
    IF initialized[e] THEN StateOf(e).nodes[p] ELSE init_single(hp, G[p], EmptyNode)

\* floor(a / b) for b > 0: the k with k * b <= a < (k + 1) * b
FloorOf(a, b) ==
    CHOOSE k \in (0 - (MaxEpoch + 2))..(MaxEpoch + 2) : k * b <= a /\ a < (k + 1) * b

\* C1: when the state of an engine that has completed an apply_gradients is
\* assigned to a fresh engine through the state setter, the next
\* apply_gradients(G, P) on the fresh engine returns what the original engine
\* returns for apply_gradients(G, P) when it continues.
C1_RoundTrip ==
    [][(/\ ret.op = "state_setter"
        /\ ret'.op = "apply_gradients"
        /\ ret'.eng = ret.eng
        /\ ~initialized[ret.eng]
        /\ ret.src \in applied)
       => \E c \in {apply_gradients(hp, initialized[ret.src], StateOf(ret.src),
                                     ret'.gradients, ret'.parameters)} :
              ret'.err = c.err /\ ret'.out = c.out]_vars

C3_ConstructionSteps ==
    ret.op = "construct"
    => /\ ret.err = ""
       /\ sched # NoSched
       /\ sched.last_epoch = ret.epoch[1]
       /\ heap[1].lr = get_lr(sched).val

\* C4: a step that returns has set last_epoch to last_epoch + 1 when no
\* epoch was given and to the given epoch otherwise, and the optimizer's
\* learning rate is get_lr() at the new last_epoch.
C4_StepSetsEpochAndRate ==
    [][(ret'.op = "step" /\ ret'.err = "")
       => /\ sched'.last_epoch =
                 IF ret'.epoch = None THEN sched.last_epoch + 1 ELSE ret'.epoch[1]
          /\ heap'[1].lr = get_lr(sched').val]_vars

C4_Witness ==
    /\ sched.kind = "ExponentialLR"
    /\ ret.op = "step"
    /\ ret.err = ""
    /\ ret.epoch = <<3>>
    /\ ~inorder
    /\ sched.last_epoch = 3
    /\ sched.base_lr = One
    /\ heap[1].lr = Q(1, 8)

\* C5: after a step of a StepLR the rate is base_lr * gamma ^ floor(last_epoch
\* / step_size); with step_size 10, gamma 1/2 and base rate 1 it is 1, 1,
\* 1/2, 1/2, 1/4 at the epochs 0, 9, 10, 19, 20.
C5_StepLRFormula ==
    (sched.kind = "StepLR" /\ ret.op = "step" /\ ret.err = "")
    => /\ sched.step_size > 0
          => heap[1].lr = Mul(sched.base_lr,
                              Pow(sched.gamma, FloorOf(sched.last_epoch, sched.step_size)))
       /\ (sched.step_size = 10 /\ sched.gamma = Half /\ sched.base_lr = One)
          => /\ sched.last_epoch \in {0, 9} => heap[1].lr = One
             /\ sched.last_epoch \in {10, 19} => heap[1].lr = Half
             /\ sched.last_epoch = 20 => heap[1].lr = Q(1, 4)

C5_Witness ==
    /\ sched.kind = "StepLR"
    /\ sched.step_size = 10
    /\ sched.gamma = Half
    /\ sched.base_lr = One
    /\ ret.op = "step"
    /\ ret.err = ""
    /\ sched.last_epoch = 19
    /\ heap[1].lr = Half

\* C6: after apply_gradients on an engine that was not initialized, the
\* positions that have a state node are exactly the leaf positions of the
\* gradients.
C6_LazyInitShape ==
    [][(ret'.op = "apply_gradients" /\ ~initialized[ret'.eng])
       => DOMAIN heap'[sref'[ret'.eng]].nodes = DOMAIN ret'.gradients]_vars

C8_MissingParameterFails ==
    (ret.op = "apply_gradients" /\ ~(DOMAIN ret.gradients \subseteq DOMAIN ret.parameters))
    => (ret.err # "" /\ ret.out = EmptyTree)

C8_Witness ==
    /\ ret.op = "apply_gradients"
    /\ <<"n", "x">> \in DOMAIN ret.gradients
    /\ <<"n", "x">> \notin DOMAIN ret.parameters
    /\ <<"w">> \in DOMAIN ret.gradients
    /\ ret.err = "KeyError"

\* C9: update leaves every model parameter at a position absent from the
\* gradients unchanged and, when it returns, has put at every leaf position
\* of the gradients the value apply_gradients returns for it.
C9_UpdateFrame ==
    [][ret'.op = "update"
       => /\ DOMAIN model' = DOMAIN model
          /\ \A p \in DOMAIN model \ DOMAIN ret'.gradients : model'[p] = model[p]
          /\ ret'.err = ""
             => \E r \in {apply_gradients(hp, initialized[ret'.eng], StateOf(ret'.eng),
                                          ret'.gradients, model)} :
                    /\ r.err = ""
                    /\ \A p \in DOMAIN ret'.gradients : model'[p] = r.out[p]]_vars

C9_Witness ==
    /\ ret.op = "update"
    /\ ret.err = ""
    /\ DOMAIN ret.gradients = {<<"w">>}
    /\ model[<<"w">>] # ret.parameters[<<"w">>]
    /\ model[<<"n", "x">>] = ret.parameters[<<"n", "x">>]
    /\ model[<<"n", "y">>] = ret.parameters[<<"n", "y">>]

\* C10: apply_single leaves the set of keys of the state node as init_single
\* made it: it replaces entries and adds or removes none, for every rule.
C10_KeySetStable ==
    [][ret'.op = "apply_single"
       => DOMAIN heap'[1].nodes[LeafPath] = DOMAIN heap[1].nodes[LeafPath]]_vars

C10_Witness ==
    /\ hp.kind = "Adafactor"
    /\ hp.beta_1 # None
    /\ ret.op = "apply_single"
    /\ ret.err = ""
    /\ ncalls = 2
    /\ DOMAIN heap[1].nodes[LeafPath] = {"step", "exp_avg_sq_row", "exp_avg_sq_col", "exp_avg"}
    /\ heap[1].nodes[LeafPath]["step"] = 2


\* C11: constructing a scheduler of any variant on an object that is not an
\* Optimizer raises TypeError; no scheduler exists afterwards, no step has
\* run, and the object and the optimizer are as they were.
C11_NotAnOptimizerFails ==
    [][ret'.op = "construct_on_object"
       => /\ ret'.err = "TypeError"
          /\ sched' = NoSched
          /\ heap' = heap]_vars

C11_Witness ==
    /\ ret.op = "construct_on_object"
    /\ ret.args.kind = "CosineAnnealingLR"
    /\ ret.epoch = <<0>>
    /\ ret.err = "TypeError"
    /\ heap[2] = NotAnOptimizer

\* C12: SGD with momentum 0.9, dampening 0, no Nesterov, no weight decay and
\* learning rate 0.1, from v = 0 and p = 1 with the gradient 1 at every step:
\* the first apply_single leaves v = 1 and returns 0.9; the second, on the
\* parameter returned, leaves v = 1.9 and returns 0.71.
C12_SGDTwoSteps ==
    [][(/\ hp = [HP0 EXCEPT !.kind = "SGD", !.lr = Tenth, !.momentum = Q(9, 10)]
        /\ ret'.op = "apply_single"
        /\ ret'.gradients[LeafPath].val = One)
       => /\ (ncalls = 0 /\ LeafNode["v"] = Zero /\ model[LeafPath].val = One)
             => /\ ret'.err = ""
                /\ heap'[1].nodes[LeafPath]["v"] = One
                /\ ret'.out[LeafPath].val = Q(9, 10)
                /\ model'[LeafPath].val = Q(9, 10)
          /\ (/\ ncalls = 1
              /\ ret.op = "apply_single"
              /\ ret.gradients[LeafPath].val = One
              /\ ret.parameters[LeafPath].val = One)
             => /\ ret'.err = ""
                /\ ret'.parameters[LeafPath].val = Q(9, 10)
                /\ heap'[1].nodes[LeafPath]["v"] = Q(19, 10)
                /\ ret'.out[LeafPath].val = Q(71, 100)]_vars

C12_Witness ==
    /\ hp = [HP0 EXCEPT !.kind = "SGD", !.lr = Tenth, !.momentum = Q(9, 10)]
    /\ ret.op = "apply_single"
    /\ ret.gradients[LeafPath].val = One
    /\ ret.parameters[LeafPath].val = Q(9, 10)
    /\ ncalls = 2
    /\ LeafNode["v"] = Q(19, 10)
    /\ model[LeafPath].val = Q(71, 100)

\* C13: the constructor of SGD raises exactly when Nesterov momentum is
\* asked for with a momentum that is not positive or a dampening that is not
\* zero; with any other momentum, dampening and nesterov it returns an engine.
C13_SGDNesterovCheck ==
    (ret.op = "new" /\ ret.args.kind = "SGD")
    => /\ (ret.err # "")
          <=> (ret.args.nesterov
               /\ (ret.args.momentum[1] <= 0 \/ ret.args.dampening[1] # 0))
       /\ ret.err = "" => (hp = ret.args /\ heap[1] = NewState(ret.args))
       /\ ret.err # "" => (ret.err = "ValueError" /\ hp = NoEngine)

C13_Witness ==
    /\ ret.op = "new"
    /\ ret.args.kind = "SGD"
    /\ ret.args.nesterov
    /\ ret.args.momentum = Q(9, 10)
    /\ ret.args.dampening = Half
    /\ ret.err = "ValueError"

\* C14: for every rule and every setting its constructor accepts,
\* apply_single with a zero gradient, while the learning rate of the engine
\* is zero, returns a parameter equal to the parameter it was given, in any
\* state earlier apply_single calls have left.
C14_ZeroStepKeepsParameter ==
    [][(/\ ret'.op = "apply_single"
        /\ ret'.gradients[LeafPath].val = Zero
        /\ heap[1].lr = Zero)
       => /\ ret'.err = ""
          /\ ret'.out[LeafPath].val = ret'.parameters[LeafPath].val]_vars

\* Adam(learning_rate=0.001, betas=(0.9, 0.999), eps=1e-8)
AdamDefaults ==
    [HP0 EXCEPT !.kind = "Adam", !.lr = Q(1, 1000), !.b1 = Q(9, 10), !.b2 = Q(999, 1000),
                !.eps = Q(1, 100000000)]

\* the first of two apply_single calls with the gradient 1 on an Adam engine
\* of the default settings, from p = 0, m = 0, v = 0
AdamFirstStep ==
    /\ hp = AdamDefaults
    /\ ncalls = 0
    /\ model[LeafPath].val = Zero
    /\ ret'.op = "apply_single"
    /\ ret'.gradients[LeafPath].val = One

\* the second of the two calls, on the parameter the first returned
AdamSecondStep ==
    /\ hp = AdamDefaults
    /\ ncalls = 1
    /\ ret.op = "apply_single"
    /\ ret.gradients[LeafPath].val = One
    /\ ret.parameters[LeafPath].val = Zero
    /\ ret'.op = "apply_single"
    /\ ret'.gradients[LeafPath].val = One

\* C15 as stated: Adam with betas (0.9, 0.999), eps 1e-8 and learning rate
\* 0.001, from p = 0, m = 0, v = 0 with the gradient 1 at two steps: after
\* step 1 m = 0.1 and v = 0.001; the parameter strictly decreases at each
\* step; the decrease at step 2 is smaller than the decrease at step 1.
C15_AdamDecreaseShrinks ==
    [][/\ AdamFirstStep
          => /\ heap'[1].nodes[LeafPath]["m"] = Tenth
             /\ heap'[1].nodes[LeafPath]["v"] = Q(1, 1000)
             /\ Lt(model'[LeafPath].val, model[LeafPath].val)
       /\ AdamSecondStep
          => /\ Lt(model'[LeafPath].val, model[LeafPath].val)
             /\ Lt(Sub(model[LeafPath].val, model'[LeafPath].val),
                   Sub(ret.parameters[LeafPath].val, model[LeafPath].val))]_vars

\* C15, amended: after step 1 m = 0.1 and v = 0.001; the parameter strictly
\* decreases at each step; the decrease at step 2 is larger than the
\* decrease at step 1 (m has grown to 0.19 and v to 0.001999).
C15_AdamDecreaseGrows ==
    [][/\ AdamFirstStep
          => /\ heap'[1].nodes[LeafPath]["m"] = Tenth
             /\ heap'[1].nodes[LeafPath]["v"] = Q(1, 1000)
             /\ Lt(model'[LeafPath].val, model[LeafPath].val)
       /\ AdamSecondStep
          => /\ heap'[1].nodes[LeafPath]["m"] = Q(19, 100)
             /\ Lt(model'[LeafPath].val, model[LeafPath].val)
             /\ Lt(Sub(ret.parameters[LeafPath].val, model[LeafPath].val),
                   Sub(model[LeafPath].val, model'[LeafPath].val))]_vars

C15_Witness ==
    /\ hp = AdamDefaults
    /\ ncalls = 2
    /\ ret.op = "apply_single"
    /\ ret.gradients[LeafPath].val = One
    /\ LeafNode["m"] = Q(19, 100)
    /\ Lt(model[LeafPath].val, ret.parameters[LeafPath].val)
    /\ Lt(ret.parameters[LeafPath].val, Q(-3, 1000))
    /\ Lt(model[LeafPath].val, Q(-7, 1000))

\* C16: for every RMSprop engine its constructor accepts and every gradient
\* g, the v that apply_single stores lies between the v before the call and
\* g squared, both included.
C16_RMSpropBetween ==
    [][(hp.kind = "RMSprop" /\ ret'.op = "apply_single" /\ ret'.err = "")
       => /\ Le(Minimum(LeafNode["v"], Square(ret'.gradients[LeafPath].val)),
                heap'[1].nodes[LeafPath]["v"])
          /\ Le(heap'[1].nodes[LeafPath]["v"],
                Maximum(LeafNode["v"], Square(ret'.gradients[LeafPath].val)))]_vars

\* the leaf positions of the tree the last call presented to its engine
Presented(r) == IF r.op = "init" THEN DOMAIN r.parameters ELSE DOMAIN r.gradients

\* C17: a leaf position has a state node if and only if the leaf has been
\* presented to the engine: a call of init, apply_gradients or update leaves
\* a state node at every leaf position of the tree it presents, and at no
\* position that neither had a node nor was presented; so a gradient leaf
\* first presented to an engine already initialized has a node when its
\* update is computed.  (Gradients with a leaf that has no parameter are
\* left aside: that call fails for the missing parameter.)
C17_NodeIffPresented ==
    [][(/\ ret'.op \in {"init", "apply_gradients", "update"}
        /\ Presented(ret') \subseteq DOMAIN ret'.parameters)
       => /\ Presented(ret') \subseteq DOMAIN heap'[sref'[ret'.eng]].nodes
          /\ DOMAIN heap'[sref'[ret'.eng]].nodes
                 \subseteq (DOMAIN StateOf(ret'.eng).nodes) \cup Presented(ret')]_vars

\* C18: a leaf that has a state node has one in every later state, whatever
\* calls of init, apply_gradients and update, on whatever trees, and
\* whatever writes of the learning rate follow.
C18_NodesRemain ==
    [][ret'.op \in {"init", "apply_gradients", "update", "learning_rate_setter"}
       => \A e \in Engines :
              DOMAIN StateOf(e).nodes \subseteq DOMAIN heap'[sref'[e]].nodes]_vars

\* C19: for every rule and every set of arguments its constructor accepts,
\* Adafactor without a learning rate included, the state holds the entry
\* learning_rate from construction on and through every later call, and
\* reading the learning_rate of the engine never fails.
C19_LearningRatePresent ==
    hp # NoEngine => (heap[1].lr # NoLR /\ learning_rate(heap[1]).err = "")

C21_SequentialConstructs ==
    (ret.op = "construct_sequential" /\ Len(ret.args) = 2)
    => /\ ret.err = ""
       /\ sched.kind = "SequentialLR"
       /\ "optimizer" \in sched.attrs
       /\ sched.current = 1

C24_FailedApplyKeepsState ==
    [][(ret'.op = "apply_gradients" /\ ret'.err # "")
       => /\ initialized'[ret'.eng] = initialized[ret'.eng]
          /\ heap'[sref'[ret'.eng]].lr = StateOf(ret'.eng).lr
          /\ \E q \in DOMAIN ret'.gradients :
                 /\ q \notin DOMAIN ret'.parameters \/ q \notin DOMAIN heap'[sref'[ret'.eng]].nodes
                 /\ Restrict(heap'[sref'[ret'.eng]].nodes, Paths \ {q})
                        = Restrict(StateOf(ret'.eng).nodes, Paths \ {q})]_vars

\* C25: a scheduler step, of a SequentialLR too, changes only the
\* learning_rate entry of the state of the optimizer it is bound to: the
\* per-leaf state nodes, the initialized flag, the scheduler's base rate,
\* the model and every other state dict are the same before and after.
C25_StepWritesOnlyLearningRate ==
    [][ret'.op \in {"step", "sequential_step"}
       => /\ heap'[1].nodes = heap[1].nodes
          /\ heap'[2] = heap[2]
          /\ initialized' = initialized
          /\ sref' = sref
          /\ model' = model
          /\ sched'.base_lr = sched.base_lr
          /\ \A i \in DOMAIN sched.schedulers :
                 sched'.schedulers[i].base_lr = sched.schedulers[i].base_lr]_vars

C25_Witness ==
    /\ ret.op = "sequential_step"
    /\ ret.err = ""
    /\ initialized["E1"]
    /\ DOMAIN heap[1].nodes = Paths
    /\ hp.kind = "SGD"
    /\ heap[1].nodes[<<"w">>].v = One
    /\ heap[1].lr # sched.base_lr
    /\ sched.last_epoch = 5
    /\ ncalls = 2

\* C26: apply_single leaves the gradient and the parameter arrays it is
\* handed as they were, for every rule and every setting of the
\* hyperparameters, weight decay included; the new parameter is only the
\* value returned.
C26_ApplySingleKeepsArguments ==
    ret.op = "apply_single"
    => /\ ret.gradients_after = ret.gradients
       /\ ret.parameters_after = ret.parameters

\* C27: an apply_gradients call on an initialized engine writes only the
\* state nodes of the leaves of gradients: the node of every other leaf, the
\* learning rate and the other state dict are unchanged and no node is
\* added; and the value returned and the node written at a leaf are those
\* apply_single gives for the gradient, the parameter and the state node of
\* this leaf alone.
C27_ApplyWritesOwnLeaves ==
    [][(ret'.op = "apply_gradients" /\ initialized[ret'.eng])
       => /\ heap'[sref'[ret'.eng]].lr = StateOf(ret'.eng).lr
          /\ \A i \in StateIds \ {sref[ret'.eng]} : heap'[i] = heap[i]
          /\ DOMAIN heap'[sref'[ret'.eng]].nodes = DOMAIN StateOf(ret'.eng).nodes
          /\ \A p \in DOMAIN StateOf(ret'.eng).nodes \ DOMAIN ret'.gradients :
                 heap'[sref'[ret'.eng]].nodes[p] = StateOf(ret'.eng).nodes[p]
          /\ ret'.err = ""
             => \A p \in DOMAIN ret'.gradients :
                    \E c \in {apply_single(hp, StateOf(ret'.eng).lr, ret'.gradients[p],
                                            ret'.parameters[p],
                                            StateOf(ret'.eng).nodes[p])} :
                        /\ c.out = ret'.out[p]
                        /\ c.state = heap'[sref'[ret'.eng]].nodes[p]]_vars

C27_Witness ==
    /\ ret.op = "apply_gradients"
    /\ ret.err = ""
    /\ ncalls = 2
    /\ hp.kind = "SGD"
    /\ DOMAIN ret.gradients = {<<"w">>, <<"n", "y">>}
    /\ DOMAIN StateOf(ret.eng).nodes = Paths
    /\ StateOf(ret.eng).nodes[<<"w">>].v = One
    /\ StateOf(ret.eng).nodes[<<"n", "x">>].v = Zero

\* C28: with relative_step on, what Adafactor returns and stores does not
\* depend on the stored learning rate: every apply_gradients call, also
\* after a scheduler step or an assignment changed the learning rate, has
\* the result, the state nodes and the arrays of the same call on an engine
\* that still has the learning rate of its construction, and of one that was
\* given no learning rate at all.
C28_RelativeStepIgnoresLearningRate ==
    [][(ret'.op = "apply_gradients" /\ hp.kind = "Adafactor" /\ hp.relative_step)
       => \A v \in {NoLR, hp.lr} :
              \E c \in {apply_gradients(hp, initialized[ret'.eng],
                                        [StateOf(ret'.eng) EXCEPT !.lr = v],
                                        ret'.gradients, ret'.parameters)} :
                  /\ c.err = ret'.err
                  /\ c.out = ret'.out
                  /\ c.state.nodes = heap'[sref'[ret'.eng]].nodes
                  /\ c.parameters = ret'.parameters_after]_vars

C28_Witness ==
    /\ hp.kind = "Adafactor"
    /\ hp.relative_step
    /\ ret.op = "apply_gradients"
    /\ ret.err = ""
    /\ sched.kind = "ExponentialLR"
    /\ sched.last_epoch = 1
    /\ heap[1].lr = Q(1, 20)
    /\ heap[1].lr # hp.lr
    /\ heap[1].nodes[<<"w">>].step = 2

\* C29: for every rule but Adafactor in relative-step mode, an
\* apply_gradients call computes its update with the learning rate the
\* engine's state holds when the call is made, also right after a scheduler
\* step or an assignment changed it: each leaf returned is apply_single with
\* that rate, which for SGD with momentum is p - lr * v and for Adam
\* p - lr * m / (sqrt(v) + eps) on the accumulators the call stored.
C29_ApplyUsesCurrentRate ==
    [][(/\ ret'.op = "apply_gradients"
        /\ ret'.err = ""
        /\ ~(hp.kind = "Adafactor" /\ hp.relative_step))
       => \A p \in DOMAIN ret'.gradients :
              \E lr \in {StateOf(ret'.eng).lr}, n \in {heap'[sref'[ret'.eng]].nodes[p]} :
                  /\ ret'.out[p] = apply_single(hp, lr, ret'.gradients[p], ret'.parameters[p],
                                                NodeAtCall(ret'.eng, ret'.gradients, p)).out
                  /\ hp.kind = "SGD"
                     => ret'.out[p].val = Sub(ret'.parameters[p].val, Mul(lr, n.v))
                  /\ hp.kind = "Adam"
                     => ret'.out[p].val =
                            Sub(ret'.parameters[p].val,
                                Div(Mul(lr, n.m), Add(Sqrt(n.v), hp.eps)))]_vars

C29_Witness ==
    /\ hp.kind = "SGD"
    /\ hp.lr = Tenth
    /\ ret.op = "apply_gradients"
    /\ ret.err = ""
    /\ sched.kind = "ExponentialLR"
    /\ sched.last_epoch = 1
    /\ heap[1].lr = Q(1, 20)
    /\ ncalls = 1
    /\ ret.parameters[<<"w">>].val = One
    /\ ret.out[<<"w">>].val = Q(19, 20)

\* C30: once an engine is initialized, by init or by its first
\* apply_gradients, no later apply_gradients or update call initializes a
\* state node again: the flag stays set, and the accumulators a successful
\* call stores at a leaf continue those the state held before the call:
\* SGD's v becomes momentum * v + g, Adafactor's step counter grows by one
\* and its second moments become beta_2 * old + (1 - beta_2) * (g^2 + eps).
C30_NoReinitialization ==
    [][(ret'.op \in {"apply_gradients", "update"} /\ initialized[ret'.eng])
       => /\ initialized'[ret'.eng]
          /\ ret'.err = ""
             => \A p \in DOMAIN ret'.gradients :
                    /\ p \in DOMAIN StateOf(ret'.eng).nodes
                    /\ \E n \in {StateOf(ret'.eng).nodes[p]},
                          n1 \in {heap'[sref'[ret'.eng]].nodes[p]},
                          u \in {Add(Square(ret'.gradients[p].val), hp.eps)} :
                        /\ DOMAIN n1 = DOMAIN n
                        /\ hp.kind = "SGD"
                           => n1.v = Add(Mul(hp.momentum, n.v), ret'.gradients[p].val)
                        /\ hp.kind = "Adafactor"
                           => /\ n1.step = n.step + 1
                              /\ \E b \in {Sub(One, Pow(Q(n1.step, 1), hp.decay_rate))} :
                                     \A k \in DOMAIN n \ {"step"} :
                                         n1[k] = Add(Mul(b, n[k]), Mul(Sub(One, b), u))]_vars

C30_Witness ==
    /\ hp.kind = "SGD"
    /\ ret.op = "update"
    /\ ret.err = ""
    /\ ret.eng = "E1"
    /\ ncalls = 3
    /\ initialized["E1"]
    /\ StateOf("E1").nodes[<<"w">>].v = Q(271, 100)
=============================================================================
